---- MODULE Spec2Model ----
(***************************************************************************)
(* A model of the news relevance / headline pipeline and of the content    *)
(* generation flow of ProfessionalNewsGenerator (alpha_news_chill.py).     *)
(*                                                                         *)
(* Texts are TLA+ strings and the string operations of the program         *)
(* (`in`, lower, isupper, len, slicing, strip) are computed on them.       *)
(* Sentiment scores are integers, hundredths of the program's floats.      *)
(* A call that raises is an outcome record with raised = TRUE.             *)
(***************************************************************************)
EXTENDS Integers, Sequences, FiniteSets, TLC

VARIABLES
    pc,           \* position of the operation under way
    article,      \* the feed record handed to the predicates
    verdict,      \* what the predicates and the scorer answered for it
    limit,        \* the limit argument of the operation under way
    response,     \* the feed response received by the last feed call
    offered,      \* the feed records the lookback windows have offered so far
    guaranteed,   \* the guarantor's accepted list
    window,       \* index of the next lookback window
    regular,      \* what _get_regular_headlines returned
    outcome,      \* outcome of the operation: [raised, val]
    call_count,   \* self.call_count
    style_key,    \* generate_content's style key
    today,        \* the week day generate_content runs on
    news,         \* the news list handed to text generation
    llm,          \* the text-generation call's outcome
    market,       \* the market-quote call's outcome
    environ,      \* os.environ after load_dotenv(): the credentials that are set
    tracker,      \* market_content_tracker.xlsx: whether it exists, its Content_Log rows
    now,          \* datetime.now(), in seconds
    saved,        \* what the last save_to_excel call did: [raised, val]
    params,       \* the params of the feed requests made so far, in order
    session_state, \* st.session_state of the front-end
    shown         \* the messages the front-end has shown: st.success, st.error

vars == << pc, article, verdict, limit, response, offered, guaranteed, window, regular,
           outcome, call_count, style_key, today, news, llm, market, environ, tracker, now,
           saved, params, session_state, shown >>

(***************************************************************************)
(* Python string operations                                                *)
(***************************************************************************)

\* term in text
Contains(term, text) ==
    \E i \in 1..(Len(text) - Len(term) + 1) : SubSeq(text, i, i + Len(term) - 1) = term

\* any(term in text for term in terms)
AnyIn(terms, text) == \E t \in terms : Contains(t, text)

UpperLetters == "ABCDEFGHIJKLMNOPQRSTUVWXYZ"
LowerLetters == "abcdefghijklmnopqrstuvwxyz"

CharSet(s) == { SubSeq(s, k, k) : k \in 1..Len(s) }

LowerTable ==
    [ c \in CharSet(UpperLetters) |->
        LET k == CHOOSE j \in 1..Len(UpperLetters) : SubSeq(UpperLetters, j, j) = c
        IN  SubSeq(LowerLetters, k, k) ]

LowerChar(c) == IF c \in DOMAIN LowerTable THEN LowerTable[c] ELSE c

RECURSIVE Lower(_)
\* text.lower()
Lower(s) == IF s = "" THEN "" ELSE LowerChar(SubSeq(s, 1, 1)) \o Lower(SubSeq(s, 2, Len(s)))

\* text.isupper(): at least one cased character and no lower-case one
IsUpper(s) ==
    /\ \E k \in 1..Len(s) : SubSeq(s, k, k) \in CharSet(UpperLetters)
    /\ \A k \in 1..Len(s) : SubSeq(s, k, k) \notin CharSet(LowerLetters)

\* text[:n]
Prefix(s, n) == SubSeq(s, 1, IF Len(s) < n THEN Len(s) ELSE n)

Whitespace == { " ", "\n", "\t" }

RECURSIVE LStrip(_)
LStrip(s) == IF s # "" /\ SubSeq(s, 1, 1) \in Whitespace THEN LStrip(SubSeq(s, 2, Len(s))) ELSE s

RECURSIVE RStrip(_)
RStrip(s) ==
    IF s # "" /\ SubSeq(s, Len(s), Len(s)) \in Whitespace THEN RStrip(SubSeq(s, 1, Len(s) - 1)) ELSE s

\* text.strip()
Strip(s) == RStrip(LStrip(s))

\* dict.get(key, default)
Get(d, key, default) == IF key \in DOMAIN d THEN d[key] ELSE default

Abs(n) == IF n < 0 THEN -n ELSE n

(***************************************************************************)
(* Keyword lists                                                           *)
(***************************************************************************)

\* __init__, lines 39-43
MAJOR_COMPANIES ==
    { "apple", "microsoft", "google", "amazon", "tesla", "nvidia", "meta", "netflix", "intel",
      "amd", "disney", "nike", "cocacola", "pepsi", "jpmorgan", "goldman sachs", "boeing",
      "ford", "exxon", "chevron" }

\* __init__, lines 45-50
HIGH_IMPACT_KEYWORDS ==
    { "fed", "federal reserve", "interest rate", "inflation", "gdp", "cpi", "jobs report",
      "unemployment", "trade war", "tariffs", "opec", "gold", "market rally", "market surge",
      "market falls", "record high", "dow", "nasdaq", "s&p 500", "oil prices", "crude oil" }

\* _is_quality_gold_commodity_news, lines 268-278
gold_company_exclusions ==
    { "announces dividend", "stock split", "reverse split", "ipo", "if you invested",
      "you would have", "outperformed" }

\* _is_quality_gold_commodity_news, lines 284-290
gold_commodity_terms ==
    { "gold price", "gold prices", "gold rally", "gold surge", "gold falls", "gold futures",
      "spot gold", "gold market", "gold trading", "gold demand", "gold supply", "bullion",
      "precious metals", "gold etf rally", "gold market outlook", "gold commodity",
      "central bank gold", "inflation gold", "safe haven gold" }

\* _is_quality_crypto_market_news, lines 304-304
crypto_terms ==
    { "bitcoin", "btc", "ethereum", "eth", "crypto", "cryptocurrency", "dogecoin", "doge" }

\* _is_quality_crypto_market_news, lines 311-315
crypto_corporate_exclusions ==
    { "stock split", "reverse split", "announces", "reports earnings", "ipo", "share price",
      "stock option", "dividend", "sec filing", "holding inc", "technology holding",
      "corporation announces" }

\* _is_quality_crypto_market_news, lines 321-325
crypto_market_indicators ==
    { "price", "rises", "falls", "rally", "surge", "drops", "trading", "market", "whale",
      "etf", "adoption", "regulation", "sec approval", "institutional", "treasury",
      "reserves", "demand", "supply" }

\* _is_quality_major_headline, lines 378-395
headline_strict_exclusions ==
    { "shareholder alert", "class action", "lawsuit", "attorney", "investigation",
      "legal notice", "court", "settlement", "plaintiff", "damages", "reminds investors",
      "law firm", "securities fraud", "kahn swick", "losses in excess", "announces grant",
      "stock options", "reverse stock split", "stock split", "dividend announcement",
      "board of directors", "executive appointment", "quarterly dividend", "special dividend",
      "if you invested", "you would have", "outperformed", "5 years ago", "strong buy",
      "trending stocks", "stocks for your", "zacks rank", "3 stocks", "5 stocks",
      "top stocks", "stocks to buy", "stocks to watch" }

\* _is_quality_major_headline, lines 401-419
headline_quality_indicators ==
    { "fed", "federal reserve", "interest rate", "inflation", "gdp", "cpi", "jobs report",
      "unemployment", "economic data", "retail sales", "market rally", "market surge",
      "market falls", "record high", "all-time high", "correction", "volatility", "dow",
      "nasdaq", "s&p 500", "index", "earnings beat", "earnings miss", "quarterly results",
      "revenue", "energy sector", "tech sector", "financial sector", "banking", "oil prices",
      "crude oil", "natural gas", "energy", "dollar", "treasury", "bonds", "yield curve" }

\* _is_quality_major_headline, lines 424-427
headline_major_companies ==
    { "apple", "microsoft", "google", "amazon", "tesla", "nvidia", "meta", "netflix", "adobe",
      "oracle", "salesforce" }

\* _is_quality_major_headline, lines 430-430
headline_reputable_sources ==
    { "cnbc", "reuters", "bloomberg", "wsj", "marketwatch" }

\* _get_priority_score, lines 451-456
forex_critical ==
    { "federal reserve", "fed meeting", "fomc", "interest rate", "monetary policy", "ecb",
      "boe", "boj", "snb", "rba", "boc", "cpi", "inflation data", "non-farm payrolls", "nfp",
      "jobs report", "gdp", "unemployment", "hawkish", "dovish" }

\* _get_priority_score, lines 462-465
geopolitical_events ==
    { "geopolitical", "trade war", "tariffs", "sanctions", "election", "summit", "opec",
      "brexit" }

\* _get_priority_score, lines 471-474
forex_market_events ==
    { "dollar", "euro", "yen", "pound", "currency", "risk-on", "risk-off", "safe-haven",
      "bond yields", "yield curve", "treasury" }

\* _get_priority_score, lines 480-483
market_events ==
    { "record high", "all-time high", "market rally", "market surge", "dow hits",
      "nasdaq reaches", "s&p 500", "correction", "sell-off" }

\* _get_priority_score, lines 489-492
sector_news ==
    { "oil prices", "crude oil", "energy sector", "tech sector", "banking sector",
      "financials" }

\* _get_priority_score, lines 498-500
earnings_companies ==
    { "apple", "microsoft", "google", "amazon", "tesla", "nvidia" }

\* _is_quality_headline, lines 553-553
headline_spam_terms ==
    { "alert", "reminder", "deadline" }

\* _is_quality_financial_content, lines 1094-1110
content_strict_exclusions ==
    { "shareholder alert", "class action", "lawsuit", "attorney", "investigation",
      "legal notice", "court", "settlement", "plaintiff", "damages", "reminds investors",
      "law firm", "securities fraud", "kahn swick", "losses in excess", "announces grant",
      "stock options", "reverse stock split", "stock split", "dividend announcement",
      "board of directors", "executive appointment", "if you invested", "you would have",
      "outperformed", "5 years ago", "strong buy", "trending stocks", "stocks for your",
      "zacks rank", "3 stocks", "5 stocks", "top stocks", "stocks to buy", "stocks to watch" }

\* _is_quality_financial_content, lines 1127-1142
content_quality_indicators ==
    { "earnings", "revenue", "profit", "guidance", "outlook", "beats", "misses", "market",
      "trading", "price", "rally", "surge", "falls", "drops", "fed", "federal reserve",
      "interest rate", "inflation", "gdp", "employment", "economic data",
      "consumer confidence", "retail sales", "manufacturing", "energy", "technology",
      "healthcare", "financials", "oil prices", "gold", "cryptocurrency", "bitcoin",
      "ethereum", "bonds", "treasury", "currency", "ipo", "merger", "acquisition",
      "partnership", "deal", "contract" }

(***************************************************************************)
(* Article normalizer                                                      *)
(***************************************************************************)

Digits == "0123456789"

DigitValue(c) == (CHOOSE k \in 1..Len(Digits) : SubSeq(Digits, k, k) = c) - 1

IsDigit(c) == c \in CharSet(Digits)

\* str(n) for a natural number
RECURSIVE NatText(_)
NatText(n) ==
    IF n < 10 THEN SubSeq(Digits, n + 1, n + 1)
    ELSE NatText(n \div 10) \o SubSeq(Digits, (n % 10) + 1, (n % 10) + 1)

\* a number below 100 in two digits, as %d, %m, %H, %M and %S print it
TwoDigits(n) == IF n < 10 THEN "0" \o NatText(n) ELSE NatText(n)

\* the order of two date and time texts of one fixed width: they compare as
\* the moments they name
RECURSIVE TextBefore(_, _)
TextBefore(a, b) ==
    IF a = "" \/ b = "" THEN FALSE
    ELSE IF SubSeq(a, 1, 1) = SubSeq(b, 1, 1)
         THEN TextBefore(SubSeq(a, 2, Len(a)), SubSeq(b, 2, Len(b)))
         ELSE DigitValue(SubSeq(a, 1, 1)) < DigitValue(SubSeq(b, 1, 1))

\* the decimal texts the feed sends for a score: D.DD or -D.DD
IsDecimal(s) ==
    LET u == IF Len(s) > 0 /\ SubSeq(s, 1, 1) = "-" THEN SubSeq(s, 2, Len(s)) ELSE s
    IN  /\ Len(u) = 4
        /\ IsDigit(SubSeq(u, 1, 1))
        /\ SubSeq(u, 2, 2) = "."
        /\ IsDigit(SubSeq(u, 3, 3))
        /\ IsDigit(SubSeq(u, 4, 4))

\* float(text), in hundredths; defined where IsDecimal holds
FloatOf(s) ==
    LET neg == SubSeq(s, 1, 1) = "-"
        u   == IF neg THEN SubSeq(s, 2, Len(s)) ELSE s
        v   == 100 * DigitValue(SubSeq(u, 1, 1)) + 10 * DigitValue(SubSeq(u, 3, 3))
                 + DigitValue(SubSeq(u, 4, 4))
    IN  IF neg THEN -v ELSE v

\* float(article.get('overall_sentiment_score', 0)) raises ValueError
NormalizeRaises(a) ==
    "overall_sentiment_score" \in DOMAIN a /\ ~IsDecimal(a["overall_sentiment_score"])

\* a projection that keeps the entries without a ticker, as empty texts
TickersOf_KeepsEmpty(items) == [ i \in 1..Len(items) |-> Get(items[i], "ticker", "") ]

\* [item.get('ticker') for item in article.get('ticker_sentiment', []) if item.get('ticker')]
RECURSIVE TickersOf(_)
TickersOf(items) ==
    IF items = << >> THEN << >>
    ELSE LET t == Get(Head(items), "ticker", "")
         IN  (IF t # "" THEN << t >> ELSE << >>) \o TickersOf(Tail(items))

\* _normalize_article, where it does not raise
NormalizeArticle(a) ==
    [ title           |-> Get(a, "title", ""),
      summary         |-> Get(a, "summary", ""),
      source          |-> Get(a, "source", ""),
      time_published  |-> Get(a, "time_published", ""),
      sentiment       |-> Get(a, "overall_sentiment_label", "neutral"),
      sentiment_score |-> IF "overall_sentiment_score" \in DOMAIN a
                          THEN FloatOf(a["overall_sentiment_score"]) ELSE 0,
      tickers         |-> TickersOf(Get(a, "ticker_sentiment", << >>)),
      url             |-> Get(a, "url", ""),
      quality_score   |-> 75 ]

(***************************************************************************)
(* Category predicates and generic headline quality                        *)
(***************************************************************************)

\* _is_quality_gold_commodity_news
IsQualityGoldCommodityNews(a) ==
    LET title   == Lower(Get(a, "title", ""))
        summary == Lower(Get(a, "summary", ""))
    IN  IF \E term \in gold_company_exclusions : Contains(term, title) \/ Contains(term, summary)
        THEN FALSE
        ELSE LET has_gold == Contains("gold", title) \/ Contains("gold", summary)
                 has_market_context ==
                     \E term \in gold_commodity_terms :
                         Contains(term, title) \/ Contains(term, summary)
             IN  has_gold /\ has_market_context

\* _is_quality_crypto_market_news
IsQualityCryptoMarketNews(a) ==
    LET title   == Lower(Get(a, "title", ""))
        summary == Lower(Get(a, "summary", ""))
        has_crypto == AnyIn(crypto_terms, title)
    IN  IF ~has_crypto THEN FALSE
        ELSE IF AnyIn(crypto_corporate_exclusions, title) THEN FALSE
        ELSE \E term \in crypto_market_indicators :
                 Contains(term, title) \/ Contains(term, summary)

\* _is_quality_headline
IsQualityHeadline(a) ==
    LET title == Get(a, "title", "")
        title_length_ok == 25 <= Len(title) /\ Len(title) <= 150
        not_all_caps    == ~IsUpper(title)
        not_spam        == ~AnyIn(headline_spam_terms, Lower(title))
    IN  title_length_ok /\ not_all_caps /\ not_spam

(***************************************************************************)
(* Content filter                                                          *)
(***************************************************************************)

\* _is_quality_major_headline
IsQualityMajorHeadline(a) ==
    LET title   == Lower(Get(a, "title", ""))
        summary == Lower(Get(a, "summary", ""))
        source  == Lower(Get(a, "source", ""))
    IN  IF AnyIn(headline_strict_exclusions, title) THEN FALSE
        ELSE LET has_quality_content ==
                     \E term \in headline_quality_indicators :
                         Contains(term, title) \/ Contains(term, summary)
                 is_major_company_news == AnyIn(headline_major_companies, title)
                 is_reputable_source   == AnyIn(headline_reputable_sources, source)
                 title_length_ok       == 30 <= Len(title) /\ Len(title) <= 120
                 not_all_caps          == ~IsUpper(title)
             IN  /\ has_quality_content \/ (is_major_company_news /\ is_reputable_source)
                 /\ title_length_ok
                 /\ not_all_caps

\* the filter without the ticker test
IsQualityFinancialContent_KeywordOnly(a) ==
    LET title   == Lower(Get(a, "title", ""))
        summary == Lower(Get(a, "summary", ""))
    IN  IF AnyIn(content_strict_exclusions, title) THEN FALSE
        ELSE LET is_significant ==
                     \/ AnyIn(MAJOR_COMPANIES, title)
                     \/ \E keyword \in HIGH_IMPACT_KEYWORDS :
                            Contains(keyword, title) \/ Contains(keyword, summary)
             IN  IF ~is_significant THEN FALSE
                 ELSE LET has_financial_content ==
                              \E term \in content_quality_indicators :
                                  Contains(term, title) \/ Contains(term, summary)
                          title_length_ok == 25 <= Len(title) /\ Len(title) <= 150
                          not_all_caps    == ~IsUpper(title)
                      IN  /\ has_financial_content
                          /\ title_length_ok
                          /\ not_all_caps

\* _is_quality_financial_content
IsQualityFinancialContent(a) ==
    LET title   == Lower(Get(a, "title", ""))
        summary == Lower(Get(a, "summary", ""))
    IN  IF AnyIn(content_strict_exclusions, title) THEN FALSE
        ELSE LET is_significant ==
                     \/ AnyIn(MAJOR_COMPANIES, title)
                     \/ \E keyword \in HIGH_IMPACT_KEYWORDS :
                            Contains(keyword, title) \/ Contains(keyword, summary)
             IN  IF ~is_significant THEN FALSE
                 ELSE LET has_financial_content ==
                              \E term \in content_quality_indicators :
                                  Contains(term, title) \/ Contains(term, summary)
                          has_tickers     == Len(Get(a, "ticker_sentiment", << >>)) > 0
                          title_length_ok == 25 <= Len(title) /\ Len(title) <= 150
                          not_all_caps    == ~IsUpper(title)
                      IN  /\ has_financial_content \/ has_tickers
                          /\ title_length_ok
                          /\ not_all_caps

(***************************************************************************)
(* Relevance scorer                                                        *)
(***************************************************************************)

\* a scorer that takes the sentiment score with its sign
GetPriorityScore_SignedSentiment(a) ==
    LET title == Lower(Get(a, "title", ""))
        category  == IF IsQualityGoldCommodityNews(a) THEN 150
                     ELSE IF IsQualityCryptoMarketNews(a) THEN 140 ELSE 0
        critical  == IF AnyIn(forex_critical, title) THEN 160 ELSE 0
        geo       == IF AnyIn(geopolitical_events, title) THEN 140 ELSE 0
        forex     == IF AnyIn(forex_market_events, title) THEN 120 ELSE 0
        moves     == IF AnyIn(market_events, title) THEN 80 ELSE 0
        sector    == IF AnyIn(sector_news, title) THEN 60 ELSE 0
        earnings  == IF Contains("earnings", title) /\ AnyIn(earnings_companies, title)
                     THEN 40 ELSE 0
        sentiment_score == Get(a, "sentiment_score", 0)
        sentiment == IF sentiment_score > 70 THEN 20
                     ELSE IF sentiment_score > 40 THEN 10 ELSE 0
        ticker_count == Len(Get(a, "tickers", << >>))
        tickers   == IF ticker_count >= 3 THEN 15
                     ELSE IF ticker_count >= 1 THEN 5 ELSE 0
    IN  category + critical + geo + forex + moves + sector + earnings + sentiment + tickers

\* _get_priority_score
GetPriorityScore(a) ==
    LET title == Lower(Get(a, "title", ""))
        category  == IF IsQualityGoldCommodityNews(a) THEN 150
                     ELSE IF IsQualityCryptoMarketNews(a) THEN 140 ELSE 0
        critical  == IF AnyIn(forex_critical, title) THEN 160 ELSE 0
        geo       == IF AnyIn(geopolitical_events, title) THEN 140 ELSE 0
        forex     == IF AnyIn(forex_market_events, title) THEN 120 ELSE 0
        moves     == IF AnyIn(market_events, title) THEN 80 ELSE 0
        sector    == IF AnyIn(sector_news, title) THEN 60 ELSE 0
        earnings  == IF Contains("earnings", title) /\ AnyIn(earnings_companies, title)
                     THEN 40 ELSE 0
        sentiment_score == Abs(Get(a, "sentiment_score", 0))
        sentiment == IF sentiment_score > 70 THEN 20
                     ELSE IF sentiment_score > 40 THEN 10 ELSE 0
        ticker_count == Len(Get(a, "tickers", << >>))
        tickers   == IF ticker_count >= 3 THEN 15
                     ELSE IF ticker_count >= 1 THEN 5 ELSE 0
    IN  category + critical + geo + forex + moves + sector + earnings + sentiment + tickers

(***************************************************************************)
(* Feed records the predicates are applied to                              *)
(***************************************************************************)

SampleTitles ==
    { "Fed holds interest rate steady as inflation cools",
      "Gold prices rally as bullion demand surges",
      "Apple unveils new iphone lineup at fall event",
      "Acme Widgets names new chief operating officer",
      "Shareholder alert: class action filed against Tesla",
      "FED CUTS INTEREST RATE AGAIN TODAY",
      "Fed cuts rates" }

SampleSummaries ==
    { "",
      "Traders weigh the outlook for the coming week.",
      "A law firm reminds investors of the class action deadline." }

SampleTickerSentiment ==
    { << >>, << [ticker |-> "AAPL"] >> }

SampleSources == { "Reuters", "PR Newswire" }

RawSamples ==
    { [title |-> t, summary |-> s, source |-> src, ticker_sentiment |-> ts] :
        t \in SampleTitles, s \in SampleSummaries, src \in SampleSources,
        ts \in SampleTickerSentiment }

NoVerdict == [x \in {} |-> FALSE]
NoOutcome == [raised |-> FALSE, val |-> << >>]

(***************************************************************************)
(* SpecFilter: the content filter applied to one feed record               *)
(***************************************************************************)

NoResponse == [kind |-> "none", feed |-> << >>]

\* no text-generation call and no quote call made
NoReply == [kind |-> "none", fields |-> << >>]

NoQuotes == [kind |-> "none", hist |-> << >>]

IdleFilter == article = NoVerdict /\ verdict = NoVerdict

IdleHeadlines ==
    /\ limit = 0 /\ response = NoResponse /\ offered = {} /\ guaranteed = << >>
    /\ window = 0 /\ regular = << >> /\ outcome = NoOutcome /\ call_count = 0

IdleGenerate ==
    /\ style_key = "" /\ today = "" /\ news = << >> /\ llm = NoReply /\ market = NoQuotes

\* both credentials set, as after a construction that succeeded
Credentials == [ ALPHA_VANTAGE_API_KEY |-> "alpha-key", OPENAI_API_KEY |-> "openai-key" ]

\* no tracker file on disk
NoTracker == [exists |-> FALSE, rows |-> << >>, sheets |-> {}]

\* save_to_excel not called
NoSave == [raised |-> FALSE, val |-> "none"]

\* a constructed generator that has saved nothing
\* the session state before any button was pressed, str_alpha.py lines 236-247
None == [is_none |-> TRUE]

\* a session value that is set
Some(v) == [is_none |-> FALSE, val |-> v]

NoSession ==
    [ content |-> None, headlines |-> None, generation_complete |-> FALSE,
      headlines_loaded |-> FALSE, last_generated_time |-> "None",
      selected_style |-> "classic_daily" ]

IdleFrontEnd == params = << >> /\ session_state = NoSession /\ shown = << >>

IdleStore ==
    environ = Credentials /\ tracker = NoTracker /\ now = 0 /\ saved = NoSave /\ IdleFrontEnd

InitFilter ==
    /\ pc = "filter"
    /\ article \in RawSamples
    /\ verdict = NoVerdict
    /\ IdleHeadlines
    /\ IdleGenerate
    /\ IdleStore

\* self._is_quality_financial_content(article)
CheckFinancialContent ==
    /\ pc = "filter"
    /\ "financial" \notin DOMAIN verdict
    /\ verdict' = verdict @@ ("financial" :> IsQualityFinancialContent(article))
    /\ UNCHANGED << params, session_state, shown, environ, tracker, now, saved, pc, article, limit, response, offered,
                    guaranteed, window, regular,
                    outcome, call_count, style_key, today, news, llm, market >>

\* self._is_quality_major_headline(article)
CheckMajorHeadline ==
    /\ pc = "filter"
    /\ "major" \notin DOMAIN verdict
    /\ verdict' = verdict @@ ("major" :> IsQualityMajorHeadline(article))
    /\ UNCHANGED << params, session_state, shown, environ, tracker, now, saved, pc, article, limit, response, offered,
                    guaranteed, window, regular,
                    outcome, call_count, style_key, today, news, llm, market >>

\* self._is_quality_headline(article)
CheckHeadline ==
    /\ pc = "filter"
    /\ "headline" \notin DOMAIN verdict
    /\ verdict' = verdict @@ ("headline" :> IsQualityHeadline(article))
    /\ UNCHANGED << params, session_state, shown, environ, tracker, now, saved, pc, article,
                    limit, response, offered, guaranteed, window, regular,
                    outcome, call_count, style_key, today, news, llm, market >>

NextFilter == CheckFinancialContent \/ CheckMajorHeadline \/ CheckHeadline

SpecFilter == InitFilter /\ [][NextFilter]_vars

(***************************************************************************)
(* Claims about the content filter                                         *)
(***************************************************************************)

TitleOrSummaryHas(terms, a) ==
    \/ AnyIn(terms, Lower(Get(a, "title", "")))
    \/ AnyIn(terms, Lower(Get(a, "summary", "")))

\* C5: an article whose title or summary contains a denylisted legal/spam
\* phrase is rejected by both admission predicates, whatever else it carries.
C5_DenylistRejects ==
    /\ ("financial" \in DOMAIN verdict /\ TitleOrSummaryHas(content_strict_exclusions, article))
           => verdict["financial"] = FALSE
    /\ ("major" \in DOMAIN verdict /\ TitleOrSummaryHas(headline_strict_exclusions, article))
           => verdict["major"] = FALSE

HasTicker(a) == Len(Get(a, "ticker_sentiment", << >>)) >= 1

TitleLengthInRange(a) == 25 <= Len(Get(a, "title", "")) /\ Len(Get(a, "title", "")) <= 150

HasFinancialKeyword(a) == TitleOrSummaryHas(content_quality_indicators, a)

PassesSignificanceGate(a) ==
    \/ AnyIn(MAJOR_COMPANIES, Lower(Get(a, "title", "")))
    \/ TitleOrSummaryHas(HIGH_IMPACT_KEYWORDS, a)

MaxFeedLen == 2

\* sequences over S of length at most n
SeqsUpTo(S, n) == UNION { [1..k -> S] : k \in 0..n }

Range(s) == { s[i] : i \in 1..Len(s) }

\* a feed call's result: requests.get raised ("raise"), a status other than 200
\* ("status"), a body that is not JSON ("bad_json"), JSON without a 'feed' key
\* ("no_feed"), or a feed of records ("ok")
FailureKinds == { "raise", "status", "bad_json", "no_feed" }

Failures == { [kind |-> k, feed |-> << >>] : k \in FailureKinds }

OkResponses(S) == { [kind |-> "ok", feed |-> f] : f \in SeqsUpTo(S, MaxFeedLen) }

\* self.call_count += 1 is reached unless requests.get raised
Counted(resp) == IF resp.kind = "raise" THEN 0 ELSE 1

GoldRecord ==
    [ title |-> "Gold prices rally as bullion demand surges", summary |-> "",
      source |-> "Reuters", overall_sentiment_score |-> "0.45", ticker_sentiment |-> << >> ]

GoldRecordLater ==
    [ title |-> "Gold prices rally as bullion demand surges",
      summary |-> "The dollar slipped after the inflation report.",
      source |-> "Reuters", overall_sentiment_score |-> "0.80", ticker_sentiment |-> << >> ]

GoldLawsuitRecord ==
    [ title |-> "Gold prices slip as miners face class action lawsuit", summary |-> "",
      source |-> "Reuters", overall_sentiment_score |-> "0.10", ticker_sentiment |-> << >> ]

CryptoRecord ==
    [ title |-> "Bitcoin price surges past record as ETF demand grows", summary |-> "",
      source |-> "Reuters", overall_sentiment_score |-> "0.45",
      ticker_sentiment |-> << [ticker |-> "CRYPTO:BTC"] >> ]

FedRecord ==
    [ title |-> "Fed holds interest rate steady as inflation cools", summary |-> "",
      source |-> "Reuters", overall_sentiment_score |-> "0.10", ticker_sentiment |-> << >> ]

BadScoreRecord ==
    [ title |-> "Oil prices climb after OPEC supply decision", summary |-> "",
      source |-> "Reuters", overall_sentiment_score |-> "n/a", ticker_sentiment |-> << >> ]

\* a record that passes the gold and the crypto predicate at once
GoldAndCryptoRecord ==
    [ title |-> "Gold prices and bitcoin rally as safe haven demand grows", summary |-> "",
      source |-> "Reuters", overall_sentiment_score |-> "0.45", ticker_sentiment |-> << >> ]

\* a record about a bank whose name begins with the letters of "gold"
GoldmanRecord ==
    [ title |-> "Goldman Sachs lifts its bullion forecast for next year", summary |-> "",
      source |-> "Reuters", overall_sentiment_score |-> "0.45", ticker_sentiment |-> << >> ]

HeadlineSamples == { GoldRecord, GoldRecordLater, GoldLawsuitRecord, CryptoRecord, FedRecord }

CoverageSamples == { GoldRecord, CryptoRecord, FedRecord, GoldAndCryptoRecord, GoldmanRecord }

FeedSamples == HeadlineSamples \cup { BadScoreRecord }

\* a record of a batch: title, summary and the tickers of its entries
BatchRecord(title, summary, tickers) ==
    [ title |-> title, summary |-> summary, source |-> "Reuters",
      overall_sentiment_score |-> "0.30",
      ticker_sentiment |-> [ i \in 1..Len(tickers) |-> [ticker |-> tickers[i]] ] ]

\* articles that contain "shareholder alert"
BatchA ==
    { BatchRecord("Shareholder alert issued over Tesla accounting review", "", << >>),
      BatchRecord("Shareholder alert issued over Tesla accounting review", "", << "TSLA" >>) }

\* articles whose title is thirty characters, all upper case
BatchB ==
    { BatchRecord("FED RAISES INTEREST RATE AGAIN", "", << >>),
      BatchRecord("BREAKING NEWS YOU MUST SEE NOW", "", << >>),
      BatchRecord("OIL PRICES JUMP TO RECORD HIGH", "", << "USO" >>) }

\* articles with a gold-commodity phrase and a ticker
BatchC ==
    { BatchRecord("Gold prices rally as bullion demand surges", "", << "GLD" >>),
      BatchRecord("Gold futures climb as safe haven demand grows", "Spot gold rose 1%.",
                  << "GLD" >>) }

\* articles with "bitcoin" and "stock split"
BatchD ==
    { BatchRecord("Bitcoin miner announces stock split after rally", "", << "MARA" >>),
      BatchRecord("Bitcoin miner announces stock split after rally", "", << >>),
      BatchRecord("Bitcoin price falls as miner confirms stock split",
                  "The miner confirmed the split on Monday.", << "MARA" >>) }

\* articles with "Fed" and "interest rate" and no ticker
BatchE ==
    { BatchRecord("Fed holds interest rate steady as inflation cools", "", << >>),
      BatchRecord("Fed signals interest rate cut as inflation eases",
                  "Officials see two cuts.", << >>) }

BatchSamples == BatchA \cup BatchB \cup BatchC \cup BatchD \cup BatchE

\* titles for the scorer: quality gold news, quality crypto news, one for each
\* list of _get_priority_score, one of no list, and gold news with a second
\* factor
ScoreTitles ==
    { "Gold prices rally as bullion demand surges",
      "Bitcoin price surges past record as ETF demand grows",
      "Fed holds interest rate steady as inflation cools",
      "Tariffs on steel imports raise costs for carmakers",
      "Dollar climbs against the euro after the data",
      "Stocks extend market rally to a record high",
      "Oil prices climb after the supply decision",
      "Apple earnings top estimates on services growth",
      "Company opens a new office in Austin",
      "Gold prices rally as the dollar weakens" }

\* sentiment scores on both sides of the two thresholds, of both signs
ScoreSentiments == { "0.00", "0.40", "0.41", "0.70", "0.71", "-0.41", "-0.71" }

ScoreTickers == { << >>, << "GLD" >>, << "GLD", "SPY", "DIA" >> }

ScoreRecords ==
    { [ BatchRecord(t, "", ts) EXCEPT !.overall_sentiment_score = s ] :
        t \in ScoreTitles, s \in ScoreSentiments, ts \in ScoreTickers }

\* the records whose predicates, scores and normal forms are tabulated
TabulatedRecords == FeedSamples \cup CoverageSamples \cup BatchSamples \cup ScoreRecords

(***************************************************************************)
(* The predicates, the scorer and the normalizer are pure: their values on  *)
(* the feed records of the model are tabulated once and looked up.          *)
(***************************************************************************)

MajorTable == [ a \in TabulatedRecords |-> IsQualityMajorHeadline(a) ]

FinancialTable == [ a \in TabulatedRecords |-> IsQualityFinancialContent(a) ]

RaisesTable == [ a \in TabulatedRecords |-> NormalizeRaises(a) ]

ArticleTable ==
    [ a \in TabulatedRecords |-> IF NormalizeRaises(a) THEN NoVerdict ELSE NormalizeArticle(a) ]

NormalizedSamples == { ArticleTable[a] : a \in { r \in TabulatedRecords : ~RaisesTable[r] } }

GoldTable == [ n \in NormalizedSamples |-> IsQualityGoldCommodityNews(n) ]

CryptoTable == [ n \in NormalizedSamples |-> IsQualityCryptoMarketNews(n) ]

QualityTable == [ n \in NormalizedSamples |-> IsQualityHeadline(n) ]

ScoreTable == [ n \in NormalizedSamples |-> GetPriorityScore(n) ]

Major(a)     == MajorTable[a]
Financial(a) == FinancialTable[a]
Raises(a)    == RaisesTable[a]
Normalize(a) == ArticleTable[a]

Gold(n)    == GoldTable[n]
Crypto(n)  == CryptoTable[n]
Quality(n) == QualityTable[n]
Score(n)   == ScoreTable[n]

(***************************************************************************)
(* Fetch operations                                                        *)
(***************************************************************************)

\* a fetch operation that normalizes every record of the feed
Keeps_Everything(filter, a) == TRUE

\* the filter a fetch operation applies to a feed record before normalizing it
Keeps(filter, a) ==
    CASE filter = "none"      -> TRUE
      [] filter = "major"     -> Major(a)
      [] filter = "financial" -> Financial(a)

\* [self._normalize_article(a) for a in feed if filter(a)]: raised = TRUE when
\* _normalize_article raises on a record the filter keeps
RECURSIVE NormalizeKept(_, _)
NormalizeKept(feed, filter) ==
    IF feed = << >> THEN [raised |-> FALSE, val |-> << >>]
    ELSE IF ~Keeps(filter, Head(feed)) THEN NormalizeKept(Tail(feed), filter)
    ELSE IF Raises(Head(feed)) THEN [raised |-> TRUE, val |-> << >>]
    ELSE LET rest == NormalizeKept(Tail(feed), filter)
         IN  IF rest.raised THEN rest
             ELSE [raised |-> FALSE, val |-> << Normalize(Head(feed)) >> \o rest.val]

\* the try block of a fetch operation up to the normalized list: requests.get
\* or response.json() raises, or the status is not 200 or the JSON has no 'feed'
\* key (the block falls through), or the feed is filtered and normalized
FetchBody(resp, filter) ==
    CASE resp.kind \in { "raise", "bad_json" }  -> [raised |-> TRUE, val |-> << >>]
      [] resp.kind \in { "status", "no_feed" }  -> [raised |-> FALSE, val |-> << >>]
      [] resp.kind = "ok"                       -> NormalizeKept(resp.feed, filter)

\* the fetch operation without its except clause
Caught_Propagates(r) == r

\* except Exception as e: print(...), followed by the operation's final `return []`
Caught(r) == IF r.raised THEN [raised |-> FALSE, val |-> << >>] ELSE r

\* _get_headlines_timeframe: every record of the feed normalized, no filter
GetHeadlinesTimeframe(resp) == Caught(FetchBody(resp, "none"))

\* _get_high_quality_news and _get_high_quality_news_timeframe: the feed filtered
\* by _is_quality_financial_content, normalized and cut to limit
GetHighQualityNews(resp, n) ==
    LET r == FetchBody(resp, "financial")
    IN  Caught(IF r.raised THEN r ELSE [raised |-> FALSE, val |-> Prefix(r.val, n)])

\* the insertion of a sort that puts a headline before those of equal score
RECURSIVE InsertByScore_TiesReversed(_, _)
InsertByScore_TiesReversed(x, sorted) ==
    IF sorted = << >> THEN << x >>
    ELSE IF Score(Head(sorted)) > Score(x)
         THEN << Head(sorted) >> \o InsertByScore_TiesReversed(x, Tail(sorted))
         ELSE << x >> \o sorted

\* sorted(key=_get_priority_score, reverse=True): stable, descending
RECURSIVE InsertByScore(_, _)
InsertByScore(x, sorted) ==
    IF sorted = << >> THEN << x >>
    ELSE IF Score(Head(sorted)) >= Score(x)
         THEN << Head(sorted) >> \o InsertByScore(x, Tail(sorted))
         ELSE << x >> \o sorted

RECURSIVE SortByPriority(_)
SortByPriority(s) ==
    IF s = << >> THEN << >>
    ELSE InsertByScore(s[Len(s)], SortByPriority(SubSeq(s, 1, Len(s) - 1)))

\* a regular fetch that returns every headline it kept, whatever the limit
GetRegularHeadlines_Uncapped(remaining_limit, resp) ==
    IF remaining_limit <= 0 THEN [raised |-> FALSE, val |-> << >>]
    ELSE LET r == FetchBody(resp, "major")
         IN  Caught(IF r.raised THEN r
                    ELSE [raised |-> FALSE, val |-> SortByPriority(r.val)])

\* _get_regular_headlines: nothing is fetched for remaining_limit <= 0; else the
\* feed filtered by _is_quality_major_headline, normalized, sorted and cut
GetRegularHeadlines(remaining_limit, resp) ==
    IF remaining_limit <= 0 THEN [raised |-> FALSE, val |-> << >>]
    ELSE LET r == FetchBody(resp, "major")
         IN  Caught(IF r.raised THEN r
                    ELSE [raised |-> FALSE,
                          val |-> Prefix(SortByPriority(r.val), remaining_limit)])

(***************************************************************************)
(* Category-coverage guarantor                                             *)
(***************************************************************************)

\* time_ranges of _get_guaranteed_gold_bitcoin_headlines: (0,1), (1,2), (2,4), (4,7)
time_ranges == << << 0, 1 >>, << 1, 2 >>, << 2, 4 >>, << 4, 7 >> >>

\* the limit parameter of _get_guaranteed_gold_bitcoin_headlines
GuaranteedLimit == 2

\* the last day of each month of 2026, counted from January 1 = 1
MonthEnds == << 31, 59, 90, 120, 151, 181, 212, 243, 273, 304, 334, 365 >>

\* the day of 2026 that holds second t of the clock and the days back from it;
\* the clock counts seconds from 2026-11-03 00:00:00, the 307th day
DayOf(t) == 307 + t \div 86400

\* date.strftime('%Y%m%d') of a day of 2026
Ymd(day) ==
    LET m == CHOOSE k \in 1..12 : day <= MonthEnds[k] /\ (k = 1 \/ day > MonthEnds[k - 1])
    IN  "2026" \o TwoDigits(m) \o TwoDigits(IF m = 1 THEN day ELSE day - MonthEnds[m - 1])

\* the time range of the params of _get_headlines_timeframe, lines 521-530:
\* timedelta(days = k) keeps the time of day, which the two formats replace
TimeframeParams(t, days_back_start, days_back_end) ==
    LET end_date   == DayOf(t) - days_back_start
        start_date == DayOf(t) - days_back_end
    IN  [ time_from |-> Ymd(start_date) \o "T0000", time_to |-> Ymd(end_date) \o "T2359" ]

\* sum(1 for h in s if pred(h)) for the gold and the crypto predicate
GoldCount(s)   == Cardinality({ i \in 1..Len(s) : Gold(s[i]) })
CryptoCount(s) == Cardinality({ i \in 1..Len(s) : Crypto(s[i]) })

\* position of the first headline the gold scan accepts, 0 when there is none
FirstGold(headlines) ==
    IF \E i \in 1..Len(headlines) : Gold(headlines[i]) /\ Quality(headlines[i])
    THEN CHOOSE i \in 1..Len(headlines) :
             /\ Gold(headlines[i]) /\ Quality(headlines[i])
             /\ \A j \in 1..(i - 1) : ~(Gold(headlines[j]) /\ Quality(headlines[j]))
    ELSE 0

\* position of the first headline passing the crypto and the quality predicate
FirstCrypto(headlines) ==
    IF \E i \in 1..Len(headlines) : Crypto(headlines[i]) /\ Quality(headlines[i])
    THEN CHOOSE i \in 1..Len(headlines) :
             /\ Crypto(headlines[i]) /\ Quality(headlines[i])
             /\ \A j \in 1..(i - 1) : ~(Crypto(headlines[j]) /\ Quality(headlines[j]))
    ELSE 0

\* a gold scan that does not look at the articles accepted so far
GoldScan_EveryWindow(accepted, headlines) ==
    IF FirstGold(headlines) # 0
    THEN Append(accepted, headlines[FirstGold(headlines)])
    ELSE accepted

\* the gold scan of one window, lines 240-247
GoldScan(accepted, headlines) ==
    IF GoldCount(accepted) = 0 /\ FirstGold(headlines) # 0
    THEN Append(accepted, headlines[FirstGold(headlines)])
    ELSE accepted

\* the crypto scan of one window, lines 250-258.  The third conjunct of its test,
\* not any(self._headlines_similar(headline, existing) for existing in guaranteed),
\* is evaluated for the first headline that passes the other two.  The class
\* defines no _headlines_similar: with an accepted article to compare against,
\* the attribute lookup raises AttributeError; with none, any() is False.
CryptoScan(accepted, headlines) ==
    IF CryptoCount(accepted) = 0 /\ Len(accepted) < GuaranteedLimit /\ FirstCrypto(headlines) # 0
    THEN IF accepted # << >>
         THEN [raised |-> TRUE, val |-> accepted]
         ELSE [raised |-> FALSE, val |-> Append(accepted, headlines[FirstCrypto(headlines)])]
    ELSE [raised |-> FALSE, val |-> accepted]

\* one pass of the loop over time_ranges, lines 233-258
GuarantorPass(accepted, resp) ==
    LET fetched == GetHeadlinesTimeframe(resp)
    IN  IF fetched.raised THEN [raised |-> TRUE, val |-> accepted]
        ELSE CryptoScan(GoldScan(accepted, fetched.val), fetched.val)

(***************************************************************************)
(* Headline aggregator                                                     *)
(***************************************************************************)

\* headline.get('title', '').lower()[:60]
TitleKey(h) == Prefix(Lower(Get(h, "title", "")), 60)

KeyTable == [ n \in NormalizedSamples |-> TitleKey(n) ]

Key(h) == KeyTable[h]

\* a dedup that keeps the last headline of each key
RemoveDuplicateHeadlines_LastWins(headlines) ==
    LET kept == { i \in 1..Len(headlines) :
                    \A j \in (i + 1)..Len(headlines) : Key(headlines[j]) # Key(headlines[i]) }
        F[i \in 0..Len(headlines)] ==
            IF i = 0 THEN << >>
            ELSE IF i \in kept THEN Append(F[i - 1], headlines[i]) ELSE F[i - 1]
    IN  F[Len(headlines)]

\* _remove_duplicate_headlines: the first headline of each key, in order
RemoveDuplicateHeadlines(headlines) ==
    LET kept == { i \in 1..Len(headlines) :
                    \A j \in 1..(i - 1) : Key(headlines[j]) # Key(headlines[i]) }
        F[i \in 0..Len(headlines)] ==
            IF i = 0 THEN << >>
            ELSE IF i \in kept THEN Append(F[i - 1], headlines[i]) ELSE F[i - 1]
    IN  F[Len(headlines)]

\* an aggregation that leaves the lower-cased dedup key in each title
Aggregate_KeysAsTitles(guaranteed_headlines, regular_headlines, n) ==
    LET all_headlines   == guaranteed_headlines \o regular_headlines
        final_headlines == Prefix(SortByPriority(RemoveDuplicateHeadlines(all_headlines)), n)
    IN  [ i \in 1..Len(final_headlines) |->
            [ final_headlines[i] EXCEPT !.title = Key(final_headlines[i]) ] ]

\* get_major_headlines after both fetches, lines 213-220
Aggregate(guaranteed_headlines, regular_headlines, n) ==
    LET all_headlines   == guaranteed_headlines \o regular_headlines
        final_headlines == SortByPriority(RemoveDuplicateHeadlines(all_headlines))
    IN  Prefix(final_headlines, n)

(***************************************************************************)
(* SpecHeadlines: get_major_headlines(limit), one step per feed call       *)
(***************************************************************************)

MaxLimit == 3

HeadlineResponses == OkResponses(HeadlineSamples) \cup { [kind |-> "status", feed |-> << >>] }

InitHeadlines ==
    /\ pc = "guarantor"
    /\ limit \in 1..MaxLimit
    /\ window = 1
    /\ response = NoResponse /\ offered = {} /\ guaranteed = << >> /\ regular = << >>
    /\ outcome = NoOutcome /\ call_count = 0
    /\ IdleFilter
    /\ IdleGenerate
    /\ IdleStore

\* one pass of the guarantor's loop: the window's feed call, answered by one
\* of `responses`, and its two scans
GuarantorStep(responses) ==
    /\ pc = "guarantor"
    /\ \E resp \in responses :
          LET r == GuarantorPass(guaranteed, resp)
          IN  /\ response' = resp
              /\ params' = Append(params, TimeframeParams(now, time_ranges[window][1],
                                                          time_ranges[window][2]))
              /\ offered' = offered \cup Range(resp.feed)
              /\ call_count' = call_count + Counted(resp)
              /\ guaranteed' = r.val
              /\ IF r.raised
                 THEN /\ pc' = "done"
                      /\ outcome' = [raised |-> TRUE, val |-> << >>]
                      /\ window' = window
                 ELSE /\ pc' = IF window = Len(time_ranges) \/ Len(r.val) >= GuaranteedLimit
                               THEN "regular" ELSE "guarantor"
                      /\ outcome' = outcome
                      /\ window' = window + 1
    /\ UNCHANGED << session_state, shown, environ, tracker, now, saved, article, verdict, limit, regular,
                    style_key, today, news,
                    llm, market >>

GuarantorWindow == GuarantorStep(HeadlineResponses)

\* the rest of get_major_headlines: the regular fetch, then dedup, sort, cut
AggregateHeadlines ==
    /\ pc = "regular"
    /\ LET guaranteed_headlines == Prefix(guaranteed, GuaranteedLimit)
           remaining_limit      == limit - Len(guaranteed_headlines)
           Finish(resp) ==
               LET fetched == GetRegularHeadlines(remaining_limit, resp)
               IN  /\ response' = resp
                   /\ regular' = fetched.val
                   /\ outcome' =
                        IF fetched.raised THEN [raised |-> TRUE, val |-> << >>]
                        ELSE [raised |-> FALSE,
                              val |-> Aggregate(guaranteed_headlines, fetched.val, limit)]
       IN  \/ /\ remaining_limit <= 0
              /\ call_count' = call_count
              /\ Finish(NoResponse)
           \/ /\ remaining_limit > 0
              /\ \E resp \in HeadlineResponses :
                    /\ call_count' = call_count + Counted(resp)
                    /\ Finish(resp)
    /\ pc' = "done"
    /\ UNCHANGED << params, session_state, shown, environ, tracker, now, saved, article, verdict, limit, offered,
                    guaranteed,
                    window,
                    style_key, today, news, llm, market >>

NextHeadlines == GuarantorWindow \/ AggregateHeadlines

SpecHeadlines == InitHeadlines /\ [][NextHeadlines]_vars

(***************************************************************************)
(* Claims about get_major_headlines                                        *)
(***************************************************************************)

Returned == pc = "done" /\ ~outcome.raised

\* the feed records a headline can have been normalized from
SourceRecords(h) == { a \in FeedSamples : ~Raises(a) /\ Normalize(a) = h }

OfferedGold   == { a \in offered : ~Raises(a) /\ Gold(Normalize(a)) /\ Quality(Normalize(a)) }
OfferedCrypto == { a \in offered : ~Raises(a) /\ Crypto(Normalize(a)) /\ Quality(Normalize(a)) }

\* C3: when the windows offer an article passing the gold and the quality
\* predicate and an article of another title passing the crypto and the quality
\* predicate, get_major_headlines (limit >= 2) returns normally and its result
\* holds a gold-qualifying and a crypto-qualifying article.
C3_BothCategoriesCovered ==
    ( /\ pc = "done"
      /\ limit >= 2
      /\ \E g \in OfferedGold : \E c \in OfferedCrypto : g.title # c.title )
        => /\ ~outcome.raised
           /\ \E i \in 1..Len(outcome.val) : Gold(outcome.val[i])
           /\ \E i \in 1..Len(outcome.val) : Crypto(outcome.val[i])

\* position of the first headline of s with key k
FirstWithKey(s, k) == CHOOSE i \in 1..Len(s) : Key(s[i]) = k /\ \A j \in 1..(i - 1) : Key(s[j]) # k

\* C7: no two returned headlines share a dedup key, and each returned headline
\* is the first one of its key in the guaranteed-then-general order, so that a
\* guaranteed article wins over a general-pool article of the same key.
C7_DedupFirstWins ==
    Returned =>
        LET all == guaranteed \o regular
        IN  /\ \A i, j \in 1..Len(outcome.val) :
                   i # j => Key(outcome.val[i]) # Key(outcome.val[j])
            /\ \A i \in 1..Len(outcome.val) :
                   /\ \E j \in 1..Len(all) : all[j] = outcome.val[i]
                   /\ all[FirstWithKey(all, Key(outcome.val[i]))] = outcome.val[i]

\* a guaranteed article and a different general-pool article shared a key, and
\* the guaranteed one was returned
C7_Witness ==
    /\ Returned
    /\ \E i \in 1..Len(guaranteed) : \E j \in 1..Len(regular) :
          /\ Key(guaranteed[i]) = Key(regular[j])
          /\ guaranteed[i] # regular[j]
          /\ \E k \in 1..Len(outcome.val) : outcome.val[k] = guaranteed[i]

\* position of headline h in s
PositionIn(s, h) == CHOOSE i \in 1..Len(s) : s[i] = h

\* C8: the returned sequence is in non-increasing priority-score order, equal
\* scores keep their order from the deduplicated guaranteed-then-general
\* concatenation, and its length never exceeds limit.
C8_SortedStableCapped ==
    Returned =>
        LET deduped == RemoveDuplicateHeadlines(guaranteed \o regular)
        IN  /\ Len(outcome.val) <= limit
            /\ \A i \in 1..(Len(outcome.val) - 1) :
                   /\ Score(outcome.val[i]) >= Score(outcome.val[i + 1])
                   /\ Score(outcome.val[i]) = Score(outcome.val[i + 1])
                        => PositionIn(deduped, outcome.val[i])
                             < PositionIn(deduped, outcome.val[i + 1])

\* two headlines of equal score were returned next to each other
C8_Witness ==
    /\ Returned
    /\ \E i \in 1..(Len(outcome.val) - 1) :
          /\ outcome.val[i] # outcome.val[i + 1]
          /\ Score(outcome.val[i]) = Score(outcome.val[i + 1])

(***************************************************************************)
(* SpecFetch: one call of one of the four feed-fetching operations         *)
(***************************************************************************)

FetchResponses == Failures \cup OkResponses(FeedSamples)

FetchOperations ==
    { "_get_high_quality_news", "_get_high_quality_news_timeframe",
      "_get_regular_headlines", "_get_headlines_timeframe" }

InitFetch ==
    /\ pc = "fetch"
    /\ limit \in 1..MaxLimit
    /\ response = NoResponse /\ offered = {} /\ guaranteed = << >> /\ window = 0
    /\ regular = << >> /\ outcome = NoOutcome /\ call_count = 0
    /\ IdleFilter
    /\ IdleGenerate
    /\ IdleStore

Fetched(op, resp, result) ==
    /\ pc' = op
    /\ response' = resp
    /\ outcome' = result
    /\ call_count' = call_count + Counted(resp)
    /\ UNCHANGED << params, session_state, shown, environ, tracker, now, saved, article, verdict, limit, offered,
                    guaranteed,
                    window, regular,
                    style_key, today, news, llm, market >>

\* self._get_high_quality_news(limit)
FetchHighQualityNews ==
    /\ pc = "fetch"
    /\ \E resp \in FetchResponses :
          Fetched("_get_high_quality_news", resp, GetHighQualityNews(resp, limit))

\* self._get_high_quality_news_timeframe(days_back, limit)
FetchHighQualityNewsTimeframe ==
    /\ pc = "fetch"
    /\ \E resp \in FetchResponses :
          Fetched("_get_high_quality_news_timeframe", resp, GetHighQualityNews(resp, limit))

\* self._get_regular_headlines(limit)
FetchRegularHeadlines ==
    /\ pc = "fetch"
    /\ \E resp \in FetchResponses :
          Fetched("_get_regular_headlines", resp, GetRegularHeadlines(limit, resp))

\* self._get_headlines_timeframe(days_back_start, days_back_end)
FetchHeadlinesTimeframe ==
    /\ pc = "fetch"
    /\ \E resp \in FetchResponses :
          Fetched("_get_headlines_timeframe", resp, GetHeadlinesTimeframe(resp))

NextFetch ==
    \/ FetchHighQualityNews
    \/ FetchHighQualityNewsTimeframe
    \/ FetchRegularHeadlines
    \/ FetchHeadlinesTimeframe

SpecFetch == InitFetch /\ [][NextFetch]_vars

(***************************************************************************)
(* Claims about the fetch operations                                       *)
(***************************************************************************)

\* C9: each feed-fetching operation returns an empty list and raises nothing
\* when the feed call raises or times out, answers with a status other than
\* 200, returns a body that is not JSON, or returns JSON without a 'feed' key.
C9_FailedFeedGivesEmptyList ==
    (pc \in FetchOperations /\ response.kind \in FailureKinds)
        => (~outcome.raised /\ outcome.val = << >>)

\* every operation has met every kind of failed feed call
C9_Witness ==
    /\ pc = "_get_regular_headlines"
    /\ response.kind = "bad_json"
    /\ ~outcome.raised
    /\ outcome.val = << >>

\* the filter each operation applies before it normalizes a record
FilterOf(op) ==
    CASE op \in { "_get_high_quality_news", "_get_high_quality_news_timeframe" } -> "financial"
      [] op = "_get_regular_headlines"   -> "major"
      [] op = "_get_headlines_timeframe" -> "none"

BadScorePositions(feed) == { i \in 1..Len(feed) : NormalizeRaises(feed[i]) }

\* C10: when one record of a feed batch has a sentiment score that cannot be
\* coerced to a number, only that record is dropped: every other record that
\* passes the operation's filter is normalized and returned.
C10_OnlyBadRecordDropped ==
    ( /\ pc \in FetchOperations
      /\ response.kind = "ok"
      /\ Cardinality(BadScorePositions(response.feed)) = 1
      /\ Len(response.feed) <= limit )
        => \A i \in 1..Len(response.feed) :
               (i \notin BadScorePositions(response.feed) /\ Keeps(FilterOf(pc), response.feed[i]))
                   => \E j \in 1..Len(outcome.val) :
                          outcome.val[j] = NormalizeArticle(response.feed[i])

(***************************************************************************)
(* Content generation: style guide, fallback content, validation           *)
(***************************************************************************)

\* self.style_guide, lines 53-96
style_guide ==
    [ classic_daily     |-> [ name |-> "Classic Daily Brief", target_seconds |-> 65,
                              tone |-> "conversational yet authoritative",
                              pacing |-> "moderate" ],
      breaking_alert    |-> [ name |-> "Breaking News Alert", target_seconds |-> 55,
                              tone |-> "urgent and dramatic", pacing |-> "fast" ],
      weekly_deep       |-> [ name |-> "Weekly Deep Dive", target_seconds |-> 85,
                              tone |-> "analytical and comprehensive",
                              pacing |-> "slower, thoughtful" ],
      market_pulse      |-> [ name |-> "Market Pulse", target_seconds |-> 60,
                              tone |-> "energetic and rhythmic", pacing |-> "upbeat" ],
      strategic_outlook |-> [ name |-> "Strategic Outlook", target_seconds |-> 80,
                              tone |-> "advisory and institutional",
                              pacing |-> "measured, authoritative" ],
      forex_briefing    |-> [ name |-> "Forex Daily Briefing", target_seconds |-> 50,
                              tone |-> "analytical and data-driven",
                              pacing |-> "clear and concise" ] ]

\* datetime.now().strftime('%B %d') on the day of the run
current_date == "November 03"

\* _create_fallback_content_with_style; the dash sequences of the source text
\* are written as -
CreateFallbackContentWithStyle(news_list, day, key) ==
    LET style_config == style_guide[key]
        script ==
            CASE key = "breaking_alert" ->
        "BREAKING NEWS for your market update. First, markets are showing "
        \o "heightened volatility as traders react to developing economic data. "
        \o "JUST IN - major indices are experiencing unusual trading patterns "
        \o "amid uncertainty. And finally - key support levels are being tested "
        \o "across multiple sectors. All eyes are on what happens next. That's "
        \o "your breaking update - more as it develops."
              [] key = "weekly_deep" ->
        "Here is your weekly market analysis. The primary catalyst this week "
        \o "was mixed economic signals, which created uncertainty in equity "
        \o "markets. In corporate developments, several major companies are "
        \o "navigating regulatory changes that could impact their strategic "
        \o "direction. Looking ahead, the key data point will be upcoming Federal "
        \o "Reserve commentary. The street is anticipating this will provide "
        \o "clarity on monetary policy. This has been your weekly market analysis."
              [] key = "market_pulse" ->
        "Time for your market pulse check! Markets are consolidating today on "
        \o "mixed economic signals. Meanwhile, sector rotation continues as "
        \o "traders position for upcoming data releases. The mood on the street? "
        \o "Cautiously optimistic with selective buying. Here's what's driving "
        \o "the action: economic uncertainty balanced against corporate "
        \o "resilience. Your market pulse - steady with defensive positioning. "
        \o "Keep watching!"
              [] key = "strategic_outlook" ->
        "Your strategic market briefing: evolving economic conditions are "
        \o "reshaping portfolio allocation dynamics. From a strategic standpoint, "
        \o "the risk-reward equation suggests maintaining balanced exposure while "
        \o "monitoring key indicators. On the tactical side, watch for upcoming "
        \o "economic data as potential inflection points. Our take: maintain "
        \o "defensive positioning while monitoring emerging opportunities. "
        \o "Strategic briefing complete - position accordingly."
              [] OTHER ->
        "Here's your market update for "
        \o current_date
        \o ". First up - markets are showing mixed signals as investors digest "
        \o "recent economic data. Next - the Federal Reserve continues monitoring "
        \o "key inflation indicators. And finally - several major sectors are "
        \o "experiencing rotational trading patterns. That's your "
        \o current_date
        \o " rundown - see you tomorrow!"
        social ==
        "Market analysis for "
        \o current_date
        \o ": Mixed signals prevail as investors weigh economic data against "
        \o "corporate fundamentals. Key themes include Federal Reserve policy "
        \o "outlook and sector rotation dynamics. Strategic positioning remains "
        \o "focused on quality names with strong fundamentals. #MarketUpdate "
        \o "#Investing #FinancialNews #Strategy"
        motion ==
        "Professional opening with "
        \o style_config.tone
        \o " delivery. Emphasize key transitions matching "
        \o style_config.pacing
        \o " pace. Maintain authoritative posture throughout. End with confident, "
        \o "style-appropriate closing gesture."
        caption == style_config.name \o " - " \o current_date \o " | Markets, Fed & Strategy"
        title   == style_config.name \o " - " \o current_date
                     \o " | Economic Data and Market Analysis"
    IN  [ script |-> script, social |-> social, motion |-> motion,
          caption |-> caption, title |-> title ]

FallbackTable == [ key \in DOMAIN style_guide |-> CreateFallbackContentWithStyle(<< >>, "", key) ]

\* the fallback content of a style: it depends on the style and the date only
Fallback(key) == FallbackTable[key]

\* _validate_professional_content
ValidateProfessionalContent(script, social, motion, caption, target_seconds) ==
    IF Len(script) < 100 THEN FALSE
    ELSE IF Len(social) > 800 \/ Len(social) < 150 THEN FALSE
    ELSE IF Len(motion) > 350 \/ Len(motion) < 50 THEN FALSE
    ELSE IF Len(caption) > 100 \/ Len(caption) < 20 THEN FALSE
    ELSE TRUE

(***************************************************************************)
(* The text-generation call and its reply                                  *)
(***************************************************************************)

\* a text of n characters
RECURSIVE Filler(_)
Filler(n) ==
    IF n <= 0 THEN ""
    ELSE IF n < 10 THEN SubSeq("markets up", 1, n)
    ELSE "markets up" \o Filler(n - 10)

\* a JSON value of the reply: a string, or a value that is not a string
JsonString(s) == [type |-> "string", text |-> s]
JsonNumber    == [type |-> "number", text |-> "7"]

\* a reply whose five fields all meet the validated lengths at their lower ends
CompleteReply ==
    [ script  |-> JsonString(Filler(100)),
      social  |-> JsonString(Filler(150)),
      motion  |-> JsonString(Filler(50)),
      caption |-> JsonString(Filler(20)),
      title   |-> JsonString("Markets steady as Fed holds") ]

Without(fields, key) == [ k \in DOMAIN fields \ { key } |-> fields[k] ]

With(fields, key, value) == [ k \in DOMAIN fields |-> IF k = key THEN value ELSE fields[k] ]

\* the values tried in place of each field of CompleteReply: lengths on both
\* sides of each validated limit, blanks that strip() removes, and a non-string
FieldVariants ==
    [ script  |-> { JsonString(Filler(99)), JsonString("  " \o Filler(99) \o "\n"),
                    JsonString(" " \o Filler(100) \o " "), JsonNumber },
      social  |-> { JsonString(Filler(149)), JsonString(Filler(800)),
                    JsonString(Filler(801)), JsonNumber },
      motion  |-> { JsonString(Filler(49)), JsonString(Filler(350)),
                    JsonString(Filler(351)) },
      caption |-> { JsonString(Filler(19)), JsonString(Filler(100)),
                    JsonString(Filler(101)) },
      title   |-> { JsonString(""), JsonString("   "), JsonNumber } ]

\* parsed JSON objects: CompleteReply with one field missing or replaced
ReplyObjects ==
    { CompleteReply }
      \cup { Without(CompleteReply, k) : k \in DOMAIN CompleteReply }
      \cup UNION { { With(CompleteReply, k, v) : v \in FieldVariants[k] } :
                   k \in DOMAIN CompleteReply }

\* what chat.completions.create does: it raises ("raise"), answers with no
\* message content ("no_content"), with text that is not JSON ("not_json"),
\* with JSON that is not an object ("json_list") or with a JSON object
Replies ==
    { [kind |-> k, fields |-> << >>] : k \in { "raise", "no_content", "not_json", "json_list" } }
      \cup { [kind |-> "object", fields |-> f] : f \in ReplyObjects }

\* parsed.get(key, "").strip(): AttributeError when the value is not a string
GetStripped(parsed, key) ==
    IF key \notin DOMAIN parsed THEN [raised |-> FALSE, val |-> Strip("")]
    ELSE IF parsed[key].type # "string" THEN [raised |-> TRUE, val |-> ""]
    ELSE [raised |-> FALSE, val |-> Strip(parsed[key].text)]

\* the five fields of the reply as lines 712-716 read them
GeneratedFields(parsed) ==
    LET script  == GetStripped(parsed, "script")
        social  == GetStripped(parsed, "social")
        motion  == GetStripped(parsed, "motion")
        caption == GetStripped(parsed, "caption")
        title   == GetStripped(parsed, "title")
    IN  [ raised |-> script.raised \/ social.raised \/ motion.raised \/ caption.raised
                       \/ title.raised,
          val    |-> [ script |-> script.val, social |-> social.val, motion |-> motion.val,
                       caption |-> caption.val, title |-> title.val ] ]

\* the try block without the call of _validate_professional_content
GenerateAttempt_Unvalidated(reply, fallback, target_seconds) ==
    CASE reply.kind \in { "raise", "no_content" } -> [raised |-> TRUE, val |-> fallback]
      [] reply.kind = "not_json"  -> [raised |-> FALSE, val |-> fallback]
      [] reply.kind = "json_list" -> [raised |-> TRUE, val |-> fallback]
      [] reply.kind = "object" ->
            LET g == GeneratedFields(reply.fields)
            IN  IF g.raised THEN [raised |-> TRUE, val |-> fallback]
                ELSE [raised |-> FALSE, val |-> g.val]

\* the try block of _generate_content_with_style, lines 690-723: raised = TRUE
\* when an exception leaves the block
GenerateAttempt(reply, fallback, target_seconds) ==
    CASE reply.kind \in { "raise", "no_content" } -> [raised |-> TRUE, val |-> fallback]
      [] reply.kind = "not_json"  -> [raised |-> FALSE, val |-> fallback]
      [] reply.kind = "json_list" -> [raised |-> TRUE, val |-> fallback]
      [] reply.kind = "object" ->
            LET g == GeneratedFields(reply.fields)
            IN  IF g.raised THEN [raised |-> TRUE, val |-> fallback]
                ELSE IF ValidateProfessionalContent(g.val.script, g.val.social, g.val.motion,
                                                    g.val.caption, target_seconds)
                     THEN [raised |-> FALSE, val |-> g.val]
                     ELSE [raised |-> FALSE, val |-> fallback]

\* except Exception as e: ... return self._create_fallback_content_with_style(...)
Rescued(r, fallback) == IF r.raised THEN [raised |-> FALSE, val |-> fallback] ELSE r

\* _generate_content_with_style; the prompt built from news[:5] goes to the
\* text-generation call only
GenerateContentWithStyle(news_list, day, theme, key, reply) ==
    LET style_config   == style_guide[key]
        target_seconds == style_config.target_seconds
        fallback       == Fallback(key)
    IN  IF news_list = << >> THEN [raised |-> FALSE, val |-> fallback]
        ELSE Rescued(GenerateAttempt(reply, fallback, target_seconds), fallback)

(***************************************************************************)
(* Market quotes                                                           *)
(***************************************************************************)

\* n / d rounded to the nearest integer, n >= 0, d > 0
RoundDiv(n, d) == (2 * n + d) \div (2 * d)

\* f"${x:.2f}" for a price in cents
PriceText(cents) ==
    "$" \o NatText(cents \div 100) \o "." \o NatText((cents % 100) \div 10)
        \o NatText(cents % 10)

\* f"{x:+.2f}%" for ((current - previous) / previous) * 100
ChangeText(current, previous) ==
    LET h == RoundDiv(Abs(current - previous) * 10000, previous)
    IN  (IF current < previous THEN "-" ELSE "+") \o NatText(h \div 100) \o "."
          \o NatText((h % 100) \div 10) \o NatText(h % 10) \o "%"

\* f"{x:+.1f}%" for ((current - week_ago) / week_ago) * 100
WeeklyChangeText(current, week_ago) ==
    LET t == RoundDiv(Abs(current - week_ago) * 1000, week_ago)
    IN  (IF current < week_ago THEN "-" ELSE "+") \o NatText(t \div 10) \o "."
          \o NatText(t % 10) \o "%"

\* daily closes in cents, oldest first, as ticker.history() returns them; a
\* day's high and low are its close
Histories ==
    { << >>, << 40000 >>, << 40000, 40400 >>, << 40000, 39000 >>,
      << 40000, 40100, 39900, 40300, 41000 >> }

\* the quote source: yfinance is not installed ("import_error"), a call raises
\* ("raise"), or every symbol answers with the history hist ("ok")
Quotes ==
    { [kind |-> k, hist |-> << >>] : k \in { "import_error", "raise" } }
      \cup { [kind |-> "ok", hist |-> h] : h \in Histories }

\* a snapshot that reports a connected source whatever came back
GetMarketSnapshot_AlwaysConnected(q) ==
    LET current  == IF Len(q.hist) >= 1 THEN q.hist[Len(q.hist)] ELSE 0
        previous == IF Len(q.hist) >= 2 THEN q.hist[Len(q.hist) - 1] ELSE 1
    IN  [ symbol |-> "SPY", price |-> PriceText(current),
          change |-> ChangeText(current, previous), status |-> "connected" ]

\* _get_market_snapshot
GetMarketSnapshot(q) ==
    IF q.kind = "ok" /\ Len(q.hist) >= 2
    THEN LET current  == q.hist[Len(q.hist)]
             previous == q.hist[Len(q.hist) - 1]
         IN  [ symbol |-> "SPY", price |-> PriceText(current),
               change |-> ChangeText(current, previous), status |-> "connected" ]
    ELSE [ status |-> "error" ]

\* _get_recent_movers: symbols[:4], a mover when abs(change_pct) > 1.5
GetRecentMovers(q) ==
    LET symbols == << "AAPL", "MSFT", "GOOGL", "AMZN" >>
        mover(symbol) ==
            IF Len(q.hist) >= 2
            THEN LET current  == q.hist[Len(q.hist)]
                     previous == q.hist[Len(q.hist) - 1]
                 IN  IF Abs(current - previous) * 1000 > 15 * previous
                     THEN << [ symbol |-> symbol, change |-> ChangeText(current, previous),
                               price |-> PriceText(current) ] >>
                     ELSE << >>
            ELSE << >>
    IN  IF q.kind = "ok"
        THEN mover(symbols[1]) \o mover(symbols[2]) \o mover(symbols[3]) \o mover(symbols[4])
        ELSE << >>

\* the largest and the smallest of a non-empty sequence of numbers
Max(s) == CHOOSE x \in Range(s) : \A y \in Range(s) : y <= x
Min(s) == CHOOSE x \in Range(s) : \A y \in Range(s) : x <= y

NoSummary == [ x \in {} |-> "" ]

\* _get_weekly_summary
GetWeeklySummary(q) ==
    IF q.kind = "ok" /\ Len(q.hist) >= 5
    THEN LET n        == Len(q.hist)
             current  == q.hist[n]
             week_ago == q.hist[n - 4]
             tail     == SubSeq(q.hist, n - 4, n)
         IN  [ weekly_change |-> WeeklyChangeText(current, week_ago),
               week_high |-> PriceText(Max(tail)), week_low |-> PriceText(Min(tail)) ]
    ELSE NoSummary

(***************************************************************************)
(* SpecGenerate: generate_content(style_key) on a given weekday            *)
(***************************************************************************)

Styles == DOMAIN style_guide

\* datetime.now().strftime('%A')
Weekdays == { "Monday", "Tuesday", "Wednesday", "Friday" }

GenerateSamples == { FedRecord, GoldLawsuitRecord, BadScoreRecord }

GenerateResponses == Failures \cup OkResponses(GenerateSamples)

InitGenerate ==
    /\ pc = "generate"
    /\ style_key \in Styles
    /\ today \in Weekdays
    /\ news = << >> /\ llm = NoReply /\ market = NoQuotes
    /\ limit = 0 /\ response = NoResponse /\ offered = {} /\ guaranteed = << >>
    /\ window = 0 /\ regular = << >> /\ outcome = NoOutcome /\ call_count = 0
    /\ IdleFilter
    /\ IdleStore

\* the bundle a day mode returns, or the exception that left it
Bundle(day, type, content, fetched, extra) ==
    IF content.raised THEN [raised |-> TRUE, val |-> << >>]
    ELSE [ raised |-> FALSE,
           val |-> [ day |-> day, type |-> type, style |-> style_guide[style_key].name,
                     script |-> content.val.script,
                     social_post |-> content.val.social,
                     motion_script |-> content.val.motion,
                     video_caption |-> content.val.caption,
                     episode_title |-> content.val.title,
                     news_count |-> Len(fetched),
                     top_articles |-> Prefix(fetched, 3) ] @@ extra ]

\* what every day mode does with the feed's answer, the quotes and the reply
Generated(resp, q, reply, fetched, bundle) ==
    /\ pc' = "generated"
    /\ response' = resp
    /\ market' = q
    /\ llm' = reply
    /\ news' = fetched
    /\ outcome' = bundle
    /\ call_count' = call_count + Counted(resp)
    /\ UNCHANGED << params, session_state, shown, environ, tracker, now, saved, article, verdict, limit, offered,
                    guaranteed,
                    window, regular,
                    style_key, today >>

\* generate_content on a Monday: _generate_monday
GenerateMonday ==
    /\ pc = "generate"
    /\ today = "Monday"
    /\ \E resp \in GenerateResponses, q \in Quotes, reply \in Replies :
          LET fetched     == GetHighQualityNews(resp, 8).val
              market_data == GetMarketSnapshot(q)
              content     == GenerateContentWithStyle(fetched, "Monday",
                                 "Weekly market open with key developments", style_key, reply)
          IN  Generated(resp, q, reply, fetched,
                        Bundle("Monday", "Weekly Market Open", content, fetched,
                               [market_data |-> market_data]))

\* generate_content on a Wednesday: _generate_wednesday
GenerateWednesday ==
    /\ pc = "generate"
    /\ today = "Wednesday"
    /\ \E resp \in GenerateResponses, q \in Quotes, reply \in Replies :
          LET fetched == GetHighQualityNews(resp, 10).val
              movers  == GetRecentMovers(q)
              content == GenerateContentWithStyle(fetched, "Wednesday",
                             "Mid-week market analysis", style_key, reply)
          IN  Generated(resp, q, reply, fetched,
                        Bundle("Wednesday", "Mid-Week Analysis", content, fetched,
                               [top_movers |-> movers]))

\* generate_content on a Friday: _generate_friday
GenerateFriday ==
    /\ pc = "generate"
    /\ today = "Friday"
    /\ \E resp \in GenerateResponses, q \in Quotes, reply \in Replies :
          LET fetched        == GetHighQualityNews(resp, 12).val
              weekly_summary == GetWeeklySummary(q)
              content        == GenerateContentWithStyle(fetched, "Friday",
                                    "Weekly market wrap-up", style_key, reply)
          IN  Generated(resp, q, reply, fetched,
                        Bundle("Friday", "Weekly Market Wrap", content, fetched,
                               [weekly_summary |-> weekly_summary]))

\* generate_content on any other day: _generate_generic
GenerateGeneric ==
    /\ pc = "generate"
    /\ today \notin { "Monday", "Wednesday", "Friday" }
    /\ \E resp \in GenerateResponses, q \in Quotes, reply \in Replies :
          LET fetched     == GetHighQualityNews(resp, 8).val
              market_data == GetMarketSnapshot(q)
              content     == GenerateContentWithStyle(fetched, today, "Daily market update",
                                                      style_key, reply)
          IN  Generated(resp, q, reply, fetched,
                        Bundle(today, "Daily Market Update", content, fetched,
                               [market_data |-> market_data]))

NextGenerate ==
    \/ GenerateMonday
    \/ GenerateWednesday
    \/ GenerateFriday
    \/ GenerateGeneric

SpecGenerate == InitGenerate /\ [][NextGenerate]_vars

(***************************************************************************)
(* Claims about generate_content and _generate_content_with_style          *)
(***************************************************************************)

BundleFields == { "script", "social_post", "motion_script", "video_caption", "episode_title" }

\* C1: for every style, every outcome of the feed call, of the quote call and
\* of the text-generation call, generate_content returns without raising and
\* script, social_post, motion_script, video_caption and episode_title are all
\* present and non-empty in the returned bundle.
C1_BundleComplete ==
    pc = "generated" =>
        /\ ~outcome.raised
        /\ \A f \in BundleFields : f \in DOMAIN outcome.val /\ outcome.val[f] # ""

\* the text of the bundle's five content fields
ContentOf(bundle) ==
    [ script |-> bundle.script, social |-> bundle.social_post, motion |-> bundle.motion_script,
      caption |-> bundle.video_caption, title |-> bundle.episode_title ]

\* the reply is a JSON object whose fields are strings
ReplyReadable ==
    /\ llm.kind = "object"
    /\ \A k \in DOMAIN llm.fields : llm.fields[k].type = "string"

\* the text of a field of the reply after strip(), "" for a missing field
ReplyText(k) == IF k \in DOMAIN llm.fields THEN Strip(llm.fields[k].text) ELSE ""

\* the reply's script, social, motion and caption pass _validate_professional_content
ReplyValid ==
    /\ ReplyReadable
    /\ ValidateProfessionalContent(ReplyText("script"), ReplyText("social"), ReplyText("motion"),
                                   ReplyText("caption"), style_guide[style_key].target_seconds)

\* C2: _generate_content_with_style lets no exception reach its caller; it
\* returns exactly the fallback content of the style when the news list is
\* empty, the text-generation call raises, its output is not valid JSON or the
\* parsed output fails validation, and it returns the generated text only when
\* validation passes.
C2_FallbackUnlessValid ==
    pc = "generated" =>
        /\ ~outcome.raised
        /\ ( \/ news = << >>
             \/ llm.kind \in { "raise", "not_json" }
             \/ (llm.kind = "object" /\ ~ReplyValid) )
               => ContentOf(outcome.val) = Fallback(style_key)
        /\ ContentOf(outcome.val) # Fallback(style_key)
               => /\ ReplyValid
                  /\ \A k \in DOMAIN CompleteReply : ContentOf(outcome.val)[k] = ReplyText(k)

\* a reply that padded its script with blanks to the validated length was
\* replaced by the fallback although news had been found
C2_Witness ==
    /\ pc = "generated"
    /\ news # << >>
    /\ ReplyReadable
    /\ "script" \in DOMAIN llm.fields
    /\ Len(llm.fields["script"].text) >= 100
    /\ ~ReplyValid
    /\ ContentOf(outcome.val) = Fallback(style_key)

(***************************************************************************)
(* SpecOutput: either entry point that hands articles on, one call of      *)
(* get_major_headlines or one call of generate_content                     *)
(***************************************************************************)

InitOutput == InitHeadlines \/ InitGenerate

NextOutput == NextHeadlines \/ NextGenerate

SpecOutput == InitOutput /\ [][NextOutput]_vars

\* the records of a feed that normalize to the article h
RecordsOf(feed, h) == { a \in Range(feed) : ~Raises(a) /\ Normalize(a) = h }

\* every article of the news list handed to text generation comes from a feed
\* record that passed _is_quality_financial_content
NewsPassedFilter ==
    pc = "generated" =>
        \A i \in 1..Len(news) :
            \E a \in RecordsOf(response.feed, news[i]) : Financial(a)

\* C4 as stated: every article returned by get_major_headlines comes from a
\* record that passed _is_quality_major_headline, and every article of the
\* news list of generate_content from a record that passed
\* _is_quality_financial_content.
C4_AllOutputPassedFilter ==
    /\ Returned =>
          \A i \in 1..Len(outcome.val) :
              \E a \in SourceRecords(outcome.val[i]) : Major(a)
    /\ NewsPassedFilter

\* C4, amended: every returned headline either comes from a record of the
\* general pool's feed that passed _is_quality_major_headline, or was accepted
\* by the guarantor from a window's feed and passes _is_quality_headline and
\* the gold or the crypto predicate; every article of the news list of
\* generate_content comes from a record that passed _is_quality_financial_content.
C4_OutputPassedItsOwnFilter ==
    /\ Returned =>
          \A i \in 1..Len(outcome.val) :
              LET h == outcome.val[i]
              IN  \/ \E a \in RecordsOf(response.feed, h) : Major(a)
                  \/ /\ h \in Range(guaranteed)
                     /\ \E a \in offered : ~Raises(a) /\ Normalize(a) = h
                     /\ Quality(h)
                     /\ Gold(h) \/ Crypto(h)
    /\ NewsPassedFilter

\* get_major_headlines returned a guaranteed article whose record does not pass
\* _is_quality_major_headline next to a general-pool article
C4_Witness ==
    /\ Returned
    /\ \E i, j \in 1..Len(outcome.val) :
          /\ outcome.val[i] \in Range(guaranteed)
          /\ \A a \in SourceRecords(outcome.val[i]) : ~Major(a)
          /\ outcome.val[j] \in Range(regular)
          /\ outcome.val[j] \notin Range(guaranteed)

(***************************************************************************)
(* SpecConstruct: ProfessionalNewsGenerator() under every setting of the   *)
(* two credentials, followed by generate_content when it was constructed   *)
(***************************************************************************)

\* os.getenv(name): None when the variable is not set; None and "" are both
\* false for `not`, and are told apart nowhere
Getenv(env, name) == Get(env, name, "")

\* a construction that asks for the feed key only
ConfigurationError_FeedKeyOnly(env) ==
    IF Getenv(env, "ALPHA_VANTAGE_API_KEY") = ""
    THEN "ALPHA_VANTAGE_API_KEY required in .env file"
    ELSE ""

\* the ValueError __init__ raises, "" when it raises none
ConfigurationError(env) ==
    IF Getenv(env, "ALPHA_VANTAGE_API_KEY") = ""
    THEN "ALPHA_VANTAGE_API_KEY required in .env file"
    ELSE IF Getenv(env, "OPENAI_API_KEY") = ""
    THEN "OPENAI_API_KEY required in .env file"
    ELSE ""

\* the settings of a credential: not set, set to the empty string, set
CredentialSettings(name, value) ==
    { [ x \in {} |-> "" ], [ k \in { name } |-> "" ], [ k \in { name } |-> value ] }

Environments ==
    { a @@ b : a \in CredentialSettings("ALPHA_VANTAGE_API_KEY", "alpha-key"),
               b \in CredentialSettings("OPENAI_API_KEY", "openai-key") }

InitConstruct ==
    /\ pc = "construct"
    /\ environ \in Environments
    /\ style_key = "classic_daily"
    /\ today \in Weekdays
    /\ news = << >> /\ llm = NoReply /\ market = NoQuotes
    /\ tracker = NoTracker /\ now = 0 /\ saved = NoSave /\ IdleFrontEnd
    /\ IdleHeadlines
    /\ IdleFilter

\* __init__: the two credential checks, then the client and call_count = 0
Construct ==
    /\ pc = "construct"
    /\ LET error == ConfigurationError(environ)
       IN  IF error # ""
           THEN /\ pc' = "config_error"
                /\ outcome' = [raised |-> TRUE, val |-> error]
           ELSE /\ pc' = "generate"
                /\ outcome' = outcome
    /\ call_count' = 0
    /\ UNCHANGED << params, session_state, shown, environ, tracker, now, saved, article, verdict, limit, response,
                    offered,
                    guaranteed, window, regular, style_key, today, news, llm, market >>

NextConstruct == Construct \/ NextGenerate

SpecConstruct == InitConstruct /\ [][NextConstruct]_vars

\* a credential is not set or is empty
CredentialMissing ==
    \/ Getenv(environ, "ALPHA_VANTAGE_API_KEY") = ""
    \/ Getenv(environ, "OPENAI_API_KEY") = ""

\* no feed request, no quote request and no text-generation request was made
NoNetworkCall == response = NoResponse /\ market = NoQuotes /\ llm = NoReply

\* C11: with either credential missing the construction raises a
\* configuration error before any network call: no feed, quote or
\* text-generation request has been made and call_count is 0 when it is
\* raised, and nothing runs after it.
C11_ConfigErrorBeforeNetwork ==
    /\ (pc # "construct" /\ CredentialMissing)
          => /\ pc = "config_error"
             /\ outcome.raised
             /\ call_count = 0
             /\ NoNetworkCall
    /\ pc = "construct" => (call_count = 0 /\ NoNetworkCall)

\* the construction failed on the text-generation key alone
C11_Witness ==
    /\ pc = "config_error"
    /\ Getenv(environ, "ALPHA_VANTAGE_API_KEY") # ""
    /\ Getenv(environ, "OPENAI_API_KEY") = ""
    /\ outcome.raised
    /\ call_count = 0

(***************************************************************************)
(* Claims about the market quotes of a bundle                              *)
(***************************************************************************)

\* the quote call raised, yfinance is missing, or fewer than two closes came back
QuoteFailed ==
    \/ market.kind \in { "raise", "import_error" }
    \/ market.kind = "ok" /\ Len(market.hist) < 2

\* the marker _get_market_snapshot returns in place of price and change
ErrorMarker == [ status |-> "error" ]

\* C12 as stated: when the quote source fails, generate_content still returns
\* its bundle and the bundle carries an error marker in place of the price and
\* the percent change.
C12_MarkerInEveryBundle ==
    (pc = "generated" /\ QuoteFailed)
        => /\ ~outcome.raised
           /\ "market_data" \in DOMAIN outcome.val
           /\ outcome.val.market_data = ErrorMarker

\* C12, amended: when the quote source fails, generate_content still returns
\* its bundle, with the content the text generation or the fallback gave; on
\* Monday and on the days without a mode of their own the bundle's market_data
\* is the marker {'status': 'error'}; on Wednesday top_movers is an empty list
\* and on Friday weekly_summary is an empty dict, and neither carries a marker.
C12_BundleDespiteQuoteFailure ==
    (pc = "generated" /\ QuoteFailed)
        => /\ ~outcome.raised
           /\ \A f \in BundleFields : f \in DOMAIN outcome.val
           /\ outcome.val.news_count = Len(news)
           /\ IF today = "Wednesday"
              THEN /\ outcome.val.top_movers = << >>
                   /\ "market_data" \notin DOMAIN outcome.val
              ELSE IF today = "Friday"
              THEN /\ outcome.val.weekly_summary = NoSummary
                   /\ "market_data" \notin DOMAIN outcome.val
              ELSE /\ outcome.val.market_data = ErrorMarker
                   /\ "price" \notin DOMAIN outcome.val.market_data
                   /\ "change" \notin DOMAIN outcome.val.market_data

\* a single close came back on a Monday and the bundle of generated text
\* carries the marker
C12_Witness ==
    /\ pc = "generated"
    /\ today = "Monday"
    /\ market.kind = "ok" /\ Len(market.hist) = 1
    /\ ~outcome.raised
    /\ outcome.val.market_data = ErrorMarker
    /\ ContentOf(outcome.val) # Fallback(style_key)

(***************************************************************************)
(* The tracker workbook: save_to_excel                                     *)
(***************************************************************************)

\* _get_guaranteed_gold_bitcoin_headlines over the answers of its windows:
\* after[w] is the loop's state after window w, calls the feed calls made
GuaranteedFrom(feeds) ==
    LET Passed(before, r, counted) ==
            [raised |-> r.raised, val |-> r.val, calls |-> before.calls + counted]
        Window(before, w) ==
            IF before.raised \/ Len(before.val) >= GuaranteedLimit THEN before
            ELSE Passed(before, GuarantorPass(before.val, feeds[w]), Counted(feeds[w]))
        after[w \in 0..Len(time_ranges)] ==
            IF w = 0 THEN [raised |-> FALSE, val |-> << >>, calls |-> 0]
            ELSE Window(after[w - 1], w)
    IN  after[Len(time_ranges)]

\* get_major_headlines as one call; feeds[1..4] answer the windows of the
\* guarantor and feeds[5] the regular fetch
GetMajorHeadlines(feeds, n) ==
    LET last == feeds[Len(time_ranges) + 1]
        Combined(g, guaranteed_headlines, fetched, counted) ==
            IF g.raised THEN [raised |-> TRUE, val |-> << >>, calls |-> g.calls]
            ELSE IF fetched.raised
                 THEN [raised |-> TRUE, val |-> << >>, calls |-> g.calls + counted]
                 ELSE [raised |-> FALSE,
                       val |-> Aggregate(guaranteed_headlines, fetched.val, n),
                       calls |-> g.calls + counted]
        Regular(g, guaranteed_headlines, remaining_limit) ==
            IF remaining_limit > 0
            THEN Combined(g, guaranteed_headlines,
                          GetRegularHeadlines(remaining_limit, last), Counted(last))
            ELSE Combined(g, guaranteed_headlines,
                          [raised |-> FALSE, val |-> << >>], 0)
        Remaining(g, guaranteed_headlines) ==
            Regular(g, guaranteed_headlines, n - Len(guaranteed_headlines))
        Headlines(g) == Remaining(g, Prefix(g.val, GuaranteedLimit))
    IN  Headlines(GuaranteedFrom(feeds))

filename == "market_content_tracker.xlsx"

\* current_time.strftime('%Y-%m-%d'); the clock counts seconds from
\* 2026-11-03 00:00:00
DateText(t) == "2026-11-" \o TwoDigits(3 + t \div 86400)

\* current_time.strftime('%H:%M:%S')
TimeText(t) ==
    LET s == t % 86400
    IN  TwoDigits(s \div 3600) \o ":" \o TwoDigits((s % 3600) \div 60) \o ":"
          \o TwoDigits(s % 60)

DateTimeOf(row) == row.Date \o " " \o row.Time

\* len(script.split())
WordCount(s) ==
    LET Blank(i) == SubSeq(s, i, i) \in Whitespace
    IN  Cardinality({ i \in 1..Len(s) : ~Blank(i) /\ (i = 1 \/ Blank(i - 1)) })

\* new_row, lines 1262-1282
NewRow(content, t) ==
    LET market_data_str ==
            IF "market_data" \in DOMAIN content
                 /\ Get(content.market_data, "status", "") = "connected"
            THEN "SPY: " \o content.market_data.price \o " ("
                   \o content.market_data.change \o ")"
            ELSE ""
    IN  [ Date          |-> DateText(t),
          Time          |-> TimeText(t),
          Day           |-> content.day,
          Content_Type  |-> content.type,
          Style         |-> Get(content, "style", "Classic Daily Brief"),
          Script        |-> content.script,
          Social_Post   |-> content.social_post,
          Motion_Script |-> Get(content, "motion_script", ""),
          Video_Caption |-> Get(content, "video_caption", ""),
          Episode_Title |-> Get(content, "episode_title", ""),
          Script_Length |-> Len(content.script),
          Word_Count    |-> WordCount(content.script),
          News_Count    |-> Get(content, "news_count", 0),
          Market_Data   |-> market_data_str,
          Quality_Score |-> IF Get(content, "news_count", 0) > 0
                            THEN "Generated" ELSE "Fallback" ]

\* what the frame holds for a cell without a value
NaN == "<NaN>"

\* the cell texts pd.read_excel takes for a missing value
na_values == { "", "#N/A", "N/A", "NA", "NULL", "NaN", "n/a", "nan", "null", "None" }

TextColumns ==
    { "Date", "Time", "Day", "Content_Type", "Style", "Script", "Social_Post",
      "Motion_Script", "Video_Caption", "Episode_Title", "Market_Data", "Quality_Score" }

\* pd.read_excel(filename, sheet_name='Content_Log'): the rows of the sheet
\* as a frame
ReadExcel(rows) ==
    [ i \in 1..Len(rows) |->
        [ c \in DOMAIN rows[i] |->
            IF c \in TextColumns /\ rows[i][c] \in na_values THEN NaN ELSE rows[i][c] ] ]

\* new_df.to_excel(writer, sheet_name='Content_Log'): the frame as the rows
\* of the sheet
ToExcel(frame) ==
    [ i \in 1..Len(frame) |->
        [ c \in DOMAIN frame[i] |->
            IF c \in TextColumns /\ frame[i][c] = NaN THEN "" ELSE frame[i][c] ] ]

InsertAt(s, p, x) == SubSeq(s, 1, p - 1) \o << x >> \o SubSeq(s, p, Len(s))

RemoveAt(s, p) == SubSeq(s, 1, p - 1) \o SubSeq(s, p + 1, Len(s))

\* pd.concat([existing_df, new_row_df]) sorted by DateTime, most recent
\* first: the frames the sort can give.  The rows read from the sheet are in
\* that order already; rows of one DateTime may come out in either order.
SortedWith(existing, row) ==
    { InsertAt(existing, p, row) :
        p \in { q \in 1..(Len(existing) + 1) :
                  /\ \A i \in 1..(q - 1) :
                        ~TextBefore(DateTimeOf(existing[i]), DateTimeOf(row))
                  /\ \A i \in q..Len(existing) :
                        ~TextBefore(DateTimeOf(row), DateTimeOf(existing[i])) } }

MaxRows  == 3
MaxClock == 2
MaxCalls == 11

ReadOutcomes  == { "ok", "raise" }
\* the workbook is truncated when the writer opens it, and written when the
\* writer is closed
WriteOutcomes == { "ok", "open_raises", "close_raises" }

SaveResponses ==
    { [kind |-> "status", feed |-> << >>],
      [kind |-> "ok", feed |-> << FedRecord >>],
      [kind |-> "ok", feed |-> << GoldRecord >>],
      [kind |-> "ok", feed |-> << GoldRecord, CryptoRecord >>] }

\* the feed answers every call of one save alike
SaveFeeds == { [ w \in 1..(Len(time_ranges) + 1) |-> r ] : r \in SaveResponses }

\* what self.get_major_headlines(limit=20), line 1314, can return
MajorHeadlines == { GetMajorHeadlines(f, 20) : f \in SaveFeeds }

SavedResponses == { [kind |-> "status", feed |-> << >>], [kind |-> "ok", feed |-> << FedRecord >>] }

SavedReplies ==
    { [kind |-> "raise", fields |-> << >>],
      [kind |-> "object", fields |-> CompleteReply],
      [kind |-> "object", fields |-> Without(CompleteReply, "title")] }

SavedQuotes == { [kind |-> "raise", hist |-> << >>], [kind |-> "ok", hist |-> << 40000, 40400 >>] }

\* generate_content has returned a bundle on a Monday (_generate_monday) and
\* nothing is saved yet
InitSave ==
    /\ pc = "generated"
    /\ style_key = "classic_daily"
    /\ today = "Monday"
    /\ response \in SavedResponses
    /\ market \in SavedQuotes
    /\ llm \in SavedReplies
    /\ news = GetHighQualityNews(response, 8).val
    /\ LET market_data == GetMarketSnapshot(market)
           content     == GenerateContentWithStyle(news, "Monday",
                              "Weekly market open with key developments", style_key, llm)
       IN  outcome = Bundle("Monday", "Weekly Market Open", content, news,
                            [market_data |-> market_data])
    /\ call_count = Counted(response)
    /\ limit = 0 /\ offered = {} /\ guaranteed = << >> /\ window = 0 /\ regular = << >>
    /\ IdleFilter
    /\ IdleStore

\* save_to_excel(content): what it does to the workbook and what it returns
SaveContent(content) ==
    /\ Len(tracker.rows) < MaxRows
    /\ now < MaxClock
    /\ call_count < MaxCalls
    /\ \E tick \in { 0, 1 }, read \in ReadOutcomes, write \in WriteOutcomes,
          major_headlines \in MajorHeadlines :
          LET current_time == now + tick
              existing_df  == IF tracker.exists /\ read = "ok"
                                   /\ "Content_Log" \in tracker.sheets
                              THEN ReadExcel(tracker.rows) ELSE << >>
              new_row      == NewRow(content, current_time)
          IN  /\ now' = current_time
              /\ \/ /\ write = "open_raises"
                    /\ tracker' = tracker
                    /\ call_count' = call_count
                    /\ saved' = [raised |-> FALSE, val |-> ""]
                 \/ /\ write # "open_raises"
                    /\ call_count' = call_count + major_headlines.calls
                    /\ \E new_df \in SortedWith(existing_df, new_row) :
                          IF write = "close_raises"
                          THEN /\ tracker' = [exists |-> TRUE, rows |-> << >>, sheets |-> {}]
                               /\ saved' = [raised |-> FALSE, val |-> ""]
                          ELSE /\ tracker' =
                                    [ exists |-> TRUE,
                                      rows   |-> ToExcel(new_df),
                                      sheets |-> { "Content_Log", "Summary" } \cup
                                                 (IF ~major_headlines.raised
                                                       /\ major_headlines.val # << >>
                                                  THEN { "Major_Headlines" } ELSE {}) ]
                               /\ saved' = [raised |-> FALSE,
                                            val |-> IF major_headlines.raised
                                                    THEN "" ELSE filename]

\* save_to_excel(content) for the bundle generate_content returned
SaveToExcel ==
    /\ pc \in { "generated", "saved" }
    /\ ~outcome.raised
    /\ SaveContent(outcome.val)
    /\ pc' = "saved"
    /\ UNCHANGED << params, session_state, shown, environ, article, verdict, limit, response, offered, guaranteed,
                    window, regular, outcome, style_key, today, news, llm, market >>

NextSave == SaveToExcel

SpecSave == InitSave /\ [][NextSave]_vars

(***************************************************************************)
(* C13: a save that reports success keeps the rows of the sheet            *)
(***************************************************************************)

\* the sheet after the step is the sheet before it with one row put in: the
\* row of the saved bundle
OneRowAdded ==
    /\ Len(tracker'.rows) = Len(tracker.rows) + 1
    /\ \E p \in 1..Len(tracker'.rows) :
          /\ RemoveAt(tracker'.rows, p) = tracker.rows
          /\ tracker'.rows[p] = NewRow(outcome.val, now')

\* C13: every save that returns the file name leaves every row the
\* Content_Log sheet held in the file and adds exactly one row, the row of the
\* saved bundle
C13_AppendOnly == [][saved'.val = filename => OneRowAdded]_vars

(***************************************************************************)
(* The normalizer on records with fields missing: _normalize_article       *)
(***************************************************************************)

MaxTickers == 3

\* a record of the feed with every field
FullRecord ==
    [ title                   |-> "Gold prices rally as the dollar weakens",
      summary                 |-> "Gold futures rose for a third session.",
      source                  |-> "Reuters",
      time_published          |-> "20261103T093000",
      overall_sentiment_label |-> "Bullish",
      overall_sentiment_score |-> "0.35",
      ticker_sentiment        |-> << >>,
      url                     |-> "https://example.com/gold" ]

\* the entries of ticker_sentiment: two tickers, an empty one, an absent one
TickerEntries ==
    { [ticker |-> "GLD", relevance_score |-> "0.9"],
      [ticker |-> "SPY", relevance_score |-> "0.4"],
      [ticker |-> "", relevance_score |-> "0.1"],
      [relevance_score |-> "0.2"] }

\* the score texts: two the feed sends, one float() cannot read
ScoreTexts == { "0.35", "-0.80", "n/a" }

Restrict(f, S) == [ k \in S |-> f[k] ]

\* the records: any subset of the fields, any score, any entries
PartialRecords ==
    { Restrict([ FullRecord EXCEPT !.overall_sentiment_score = s, !.ticker_sentiment = ts ], S) :
        S \in SUBSET DOMAIN FullRecord,
        s \in ScoreTexts,
        ts \in SeqsUpTo(TickerEntries, MaxTickers) }

InitNormalize ==
    /\ pc = "raw"
    /\ article \in PartialRecords
    /\ verdict = NoVerdict
    /\ IdleHeadlines
    /\ IdleGenerate
    /\ IdleStore

\* self._normalize_article(article)
NormalizeRecord ==
    /\ pc = "raw"
    /\ pc' = "normalized"
    /\ outcome' = IF NormalizeRaises(article)
                  THEN [raised |-> TRUE, val |-> << >>]
                  ELSE [raised |-> FALSE, val |-> NormalizeArticle(article)]
    /\ UNCHANGED << params, session_state, shown, environ, tracker, now, saved, article, verdict, limit, response, offered,
                    guaranteed, window, regular, call_count, style_key, today, news, llm,
                    market >>

NextNormalize == NormalizeRecord

SpecNormalize == InitNormalize /\ [][NextNormalize]_vars

(***************************************************************************)
(* C14: defaults for missing fields, and the ticker list                   *)
(***************************************************************************)

\* the score of the record, where it has one, is a number of the feed
ScoreIsNumber == "overall_sentiment_score" \in DOMAIN article => IsDecimal(article.overall_sentiment_score)

\* the field of the article is the field of the record, or the default
FieldOrDefault(norm, raw, default) ==
    outcome.val[norm] = IF raw \in DOMAIN article THEN article[raw] ELSE default

\* the positions of ticker_sentiment whose entry has a ticker that is not empty
TickerPositions ==
    LET items == IF "ticker_sentiment" \in DOMAIN article THEN article.ticker_sentiment
                 ELSE << >>
    IN  { i \in 1..Len(items) : "ticker" \in DOMAIN items[i] /\ items[i].ticker # "" }

\* C14: for every record of the feed with any subset of its fields missing,
\* _normalize_article returns without raising; title, summary, source,
\* time_published, sentiment, sentiment_score and tickers are all present, with
\* the defaults "", "neutral", 0 and the empty list; the tickers are the ticker
\* of each entry in order, entries without a ticker or with an empty one
\* skipped, duplicates kept
C14_DefaultsAndTickers ==
    (pc = "normalized" /\ ScoreIsNumber) =>
        /\ ~outcome.raised
        /\ { "title", "summary", "source", "time_published", "sentiment",
             "sentiment_score", "tickers" } \subseteq DOMAIN outcome.val
        /\ FieldOrDefault("title", "title", "")
        /\ FieldOrDefault("summary", "summary", "")
        /\ FieldOrDefault("source", "source", "")
        /\ FieldOrDefault("time_published", "time_published", "")
        /\ FieldOrDefault("sentiment", "overall_sentiment_label", "neutral")
        /\ "overall_sentiment_score" \notin DOMAIN article => outcome.val.sentiment_score = 0
        /\ "overall_sentiment_score" \in DOMAIN article =>
              outcome.val.sentiment_score = FloatOf(article.overall_sentiment_score)
        /\ Len(outcome.val.tickers) = Cardinality(TickerPositions)
        /\ \A k \in 1..Len(outcome.val.tickers) :
              \E i \in TickerPositions :
                 /\ Cardinality({ j \in TickerPositions : j <= i }) = k
                 /\ outcome.val.tickers[k] = article.ticker_sentiment[i].ticker

\* a record without title, label and score, whose entries are a ticker, an
\* empty ticker, the same ticker again and another ticker, has been normalized
C14_Witness ==
    /\ pc = "normalized"
    /\ ~outcome.raised
    /\ DOMAIN article \cap { "title", "overall_sentiment_label", "overall_sentiment_score" } = {}
    /\ "ticker_sentiment" \in DOMAIN article
    /\ Len(article.ticker_sentiment) = 3
    /\ outcome.val.tickers = << "GLD", "GLD" >>
    /\ outcome.val.sentiment = "neutral"
    /\ outcome.val.sentiment_score = 0
    /\ outcome.val.title = ""

(***************************************************************************)
(* A batch of five articles through the content filter                     *)
(***************************************************************************)

\* the feed answers with a batch A, B, C, D, E
BatchResponses ==
    { [kind |-> "ok", feed |-> << a, b, c, d, e >>] :
        a \in BatchA, b \in BatchB, c \in BatchC, d \in BatchD, e \in BatchE }

InitBatch ==
    /\ pc = "batch"
    /\ response \in BatchResponses
    /\ limit = 0 /\ offered = {} /\ guaranteed = << >> /\ window = 0 /\ regular = << >>
    /\ outcome = NoOutcome /\ call_count = 0
    /\ IdleFilter
    /\ IdleGenerate
    /\ IdleStore

\* _get_high_quality_news(limit=8) on the batch
FilterBatch ==
    /\ pc = "batch"
    /\ pc' = "filtered"
    /\ outcome' = GetHighQualityNews(response, 8)
    /\ call_count' = call_count + Counted(response)
    /\ UNCHANGED << params, session_state, shown, environ, tracker, now, saved, article, verdict, limit, response, offered,
                    guaranteed, window, regular, style_key, today, news, llm, market >>

NextBatch == FilterBatch

SpecBatch == InitBatch /\ [][NextBatch]_vars

(***************************************************************************)
(* C15: what the content filter admits of the batch                        *)
(***************************************************************************)

\* C15: of a batch A ("shareholder alert"), B (title of 30 characters, all
\* upper case), C (gold phrase and a ticker), D ("bitcoin" and "stock split"),
\* E ("Fed" and "interest rate", no ticker) the content filter admits exactly
\* C and E
C15_AdmitsExactlyCAndE ==
    pc = "filtered" =>
        /\ ~outcome.raised
        /\ Range(outcome.val) = { Normalize(response.feed[3]), Normalize(response.feed[5]) }

(***************************************************************************)
(* The scorer on pairs of articles: _get_priority_score                    *)
(***************************************************************************)

ScoreSamples == { Normalize(r) : r \in ScoreRecords }

InitScore ==
    /\ pc = "score"
    /\ news \in [1..2 -> ScoreSamples]
    /\ style_key = "classic_daily" /\ today = "Monday" /\ llm = NoReply /\ market = NoQuotes
    /\ IdleHeadlines
    /\ IdleFilter
    /\ IdleStore

\* the keys of final_headlines.sort(key=lambda x: self._get_priority_score(x)),
\* line 217
ScoreHeadlines ==
    /\ pc = "score"
    /\ pc' = "scored"
    /\ verdict' = [ i \in 1..Len(news) |-> Score(news[i]) ]
    /\ UNCHANGED << params, session_state, shown, environ, tracker, now, saved, article, limit, response, offered,
                    guaranteed, window, regular, outcome, call_count, style_key, today, news,
                    llm, market >>

NextScore == ScoreHeadlines

SpecScore == InitScore /\ [][NextScore]_vars

(***************************************************************************)
(* C16: the gold and crypto bonus against every other factor               *)
(***************************************************************************)

\* the lists of _get_priority_score a title matches
FactorsOf(h) ==
    LET title == Lower(h.title)
    IN  { f \in { "forex_critical", "geopolitical", "forex_market", "market", "sector",
                  "earnings" } :
            CASE f = "forex_critical" -> AnyIn(forex_critical, title)
              [] f = "geopolitical"   -> AnyIn(geopolitical_events, title)
              [] f = "forex_market"   -> AnyIn(forex_market_events, title)
              [] f = "market"         -> AnyIn(market_events, title)
              [] f = "sector"         -> AnyIn(sector_news, title)
              [] f = "earnings"       -> Contains("earnings", title)
                                           /\ AnyIn(earnings_companies, title) }

Guaranteed(h) == Gold(h) \/ Crypto(h)

\* C16: the bonus of quality gold or quality crypto news is strictly larger
\* than the bonus of every other single factor: with equal sentiment and no
\* fewer tickers, a quality gold or crypto article scores higher than an
\* article that is neither and matches one other list
C16_CategoryBonusLargest ==
    ( /\ pc = "scored"
      /\ Guaranteed(news[1]) /\ ~Guaranteed(news[2])
      /\ Cardinality(FactorsOf(news[2])) = 1
      /\ news[1].sentiment_score = news[2].sentiment_score
      /\ Len(news[1].tickers) >= Len(news[2].tickers) )
        => verdict[1] > verdict[2]

(***************************************************************************)
(* C17: the score against the magnitude of the sentiment                   *)
(***************************************************************************)

\* the two articles differ in sentiment_score at most
SameButSentiment ==
    [ news[1] EXCEPT !.sentiment_score = 0 ] = [ news[2] EXCEPT !.sentiment_score = 0 ]

\* C17: of two articles identical except for sentiment_score, the one with the
\* larger absolute sentiment score never gets the lower score; and no score is
\* negative
C17_MonotonicInSentiment ==
    pc = "scored" =>
        /\ \A i \in 1..2 : verdict[i] >= 0
        /\ ( SameButSentiment /\ Abs(news[1].sentiment_score) >= Abs(news[2].sentiment_score) )
              => verdict[1] >= verdict[2]

\* two articles that differ in sentiment only, the first negative and of the
\* larger magnitude, have been scored and the first scores more
C17_Witness ==
    /\ pc = "scored"
    /\ SameButSentiment
    /\ news[1].sentiment_score < 0
    /\ news[2].sentiment_score > 0
    /\ Abs(news[1].sentiment_score) > Abs(news[2].sentiment_score)
    /\ verdict[1] > verdict[2]

(***************************************************************************)
(* The aggregation steps applied twice                                      *)
(***************************************************************************)

MaxHeadlines == 3

\* headlines with a shared key (the two gold records) and with equal scores
\* under different keys
AggregateSamples ==
    { Normalize(r) : r \in { GoldRecord, GoldRecordLater, CryptoRecord, FedRecord,
                             BatchRecord("FED RAISES INTEREST RATE AGAIN", "", << >>),
                             BatchRecord("Fed signals interest rate cut as inflation eases",
                                         "Officials see two cuts.", << >>) } }

InitAggregate ==
    /\ pc = "aggregate"
    /\ limit \in 1..MaxLimit
    /\ guaranteed \in SeqsUpTo(AggregateSamples, 1)
    /\ regular \in SeqsUpTo(AggregateSamples, MaxHeadlines)
    /\ response = NoResponse /\ offered = {} /\ window = 0
    /\ outcome = NoOutcome /\ call_count = 0
    /\ IdleFilter
    /\ IdleGenerate
    /\ IdleStore

\* lines 213-220 of get_major_headlines on the two lists
AggregateOnce ==
    /\ pc = "aggregate"
    /\ pc' = "once"
    /\ news' = Aggregate(guaranteed, regular, limit)
    /\ UNCHANGED << params, session_state, shown, environ, tracker, now, saved, article, verdict, limit, response, offered,
                    guaranteed, window, regular, outcome, call_count, style_key, today, llm,
                    market >>

\* the same lines on their own result
AggregateAgain ==
    /\ pc = "once"
    /\ pc' = "twice"
    /\ outcome' = [raised |-> FALSE, val |-> Aggregate(<< >>, news, limit)]
    /\ UNCHANGED << params, session_state, shown, environ, tracker, now, saved, article, verdict, limit, response, offered,
                    guaranteed, window, regular, call_count, style_key, today, news, llm,
                    market >>

NextAggregate == AggregateOnce \/ AggregateAgain

SpecAggregate == InitAggregate /\ [][NextAggregate]_vars

(***************************************************************************)
(* C18: aggregation is idempotent                                          *)
(***************************************************************************)

\* C18: dedup by key, sort by score descending and cut to limit, applied to a
\* sequence that is the result of those steps, gives the same sequence,
\* element for element
C18_AggregationIdempotent == pc = "twice" => outcome.val = news

\* the steps have been applied twice to lists in which a key came twice and
\* two keys had one score; the first pass dropped, reordered and cut
C18_Witness ==
    /\ pc = "twice"
    /\ Len(news) >= 2
    /\ Len(news) < Len(guaranteed \o regular)
    /\ news # Prefix(guaranteed \o regular, Len(news))
    /\ \E i, j \in 1..Len(regular) : i < j /\ Key(regular[i]) = Key(regular[j])
    /\ \E i \in 1..(Len(news) - 1) : Score(news[i]) = Score(news[i + 1])
    /\ outcome.val = news

(***************************************************************************)
(* C19: the crypto scan of a window                                        *)
(***************************************************************************)

\* the headlines of the window the step fetched
WindowHeadlines == GetHeadlinesTimeframe(response').val

\* the accepted articles when the crypto scan of the step begins
BeforeCryptoScan == GoldScan(guaranteed, WindowHeadlines)

\* the positions of the window whose headline passes the crypto and the
\* quality predicate and is no near-duplicate of an accepted article
CryptoCandidates ==
    { i \in 1..Len(WindowHeadlines) :
        /\ Crypto(WindowHeadlines[i]) /\ Quality(WindowHeadlines[i])
        /\ \A k \in 1..Len(BeforeCryptoScan) :
              Key(BeforeCryptoScan[k]) # Key(WindowHeadlines[i]) }

CryptoSlotOpen == CryptoCount(BeforeCryptoScan) = 0 /\ Len(BeforeCryptoScan) < GuaranteedLimit

\* C19: while the crypto slot is unfilled, the crypto scan of a window skips
\* the near-duplicates of the accepted articles and accepts the first remaining
\* headline, in feed order, that passes the crypto and the quality predicate;
\* the scan completes without error whether or not articles are accepted
C19_CryptoScanAcceptsFirst ==
    [][ (pc = "guarantor" /\ CryptoSlotOpen) =>
            /\ ~outcome'.raised
            /\ guaranteed' =
                 IF CryptoCandidates = {} THEN BeforeCryptoScan
                 ELSE Append(BeforeCryptoScan,
                             WindowHeadlines[CHOOSE i \in CryptoCandidates :
                                                \A j \in CryptoCandidates : i <= j]) ]_vars

(***************************************************************************)
(* C20: the gold article the guarantor chooses                             *)
(***************************************************************************)

\* the positions of the window whose headline passes the gold and the quality
\* predicate
GoldCandidates ==
    { i \in 1..Len(WindowHeadlines) : Gold(WindowHeadlines[i]) /\ Quality(WindowHeadlines[i]) }

\* C20: the windows are visited nearest first, and when no nearer window held
\* a headline passing the gold and the quality predicate and this window holds
\* one, the guarantor goes on to return a result that contains the first such
\* headline of this window, in feed order
C20_NearestGoldChosen ==
    [][ (pc = "guarantor" /\ GoldCount(guaranteed) = 0 /\ GoldCandidates # {}) =>
            /\ ~outcome'.raised
            /\ window' = window + 1
            /\ \E k \in 1..GuaranteedLimit :
                  /\ k <= Len(guaranteed')
                  /\ guaranteed'[k] =
                       WindowHeadlines[CHOOSE i \in GoldCandidates :
                                          \A j \in GoldCandidates : i <= j] ]_vars

(***************************************************************************)
(* SpecCoverage: get_major_headlines over feeds that hold a record of both *)
(* categories and a record about a bank named like the metal               *)
(***************************************************************************)

CoverageResponses == OkResponses(CoverageSamples) \cup { [kind |-> "status", feed |-> << >>] }

CoverageWindow == GuarantorStep(CoverageResponses)

NextCoverage == CoverageWindow \/ AggregateHeadlines

SpecCoverage == InitHeadlines /\ [][NextCoverage]_vars

(***************************************************************************)
(* C21: the loop over the lookback windows once both slots are filled      *)
(***************************************************************************)

\* the accepted articles hold one passing the gold predicate and one passing
\* the crypto predicate (one article may be both)
BothSlotsFilled == GoldCount(guaranteed) > 0 /\ CryptoCount(guaranteed) > 0

\* a pass of the guarantor's loop that calls the feed for a lookback window
FetchesWindow == pc = "guarantor" /\ call_count' = call_count + 1 /\ response'.kind # "none"

\* C21: once the accepted articles hold an article passing the gold predicate
\* and an article passing the crypto predicate (one article passing both
\* included), no later step of the guarantor fetches a lookback window
C21_NoFetchOnceBothFilled == [][ BothSlotsFilled => ~FetchesWindow ]_vars

(***************************************************************************)
(* SpecWindows: the guarantor's loop with the clock its requests read      *)
(***************************************************************************)

\* midday, the last second of a day, and the last second of a later day
StartClocks == { 43200, 86399, 4 * 86400 + 86399 }

WindowResponses ==
    { [kind |-> "status", feed |-> << >>], [kind |-> "ok", feed |-> << FedRecord >>],
      [kind |-> "ok", feed |-> << GoldRecord >>], [kind |-> "ok", feed |-> << CryptoRecord >>] }

InitWindows ==
    /\ pc = "guarantor"
    /\ limit \in 1..MaxLimit
    /\ window = 1
    /\ response = NoResponse /\ offered = {} /\ guaranteed = << >> /\ regular = << >>
    /\ outcome = NoOutcome /\ call_count = 0
    /\ now \in StartClocks
    /\ environ = Credentials /\ tracker = NoTracker /\ saved = NoSave
    /\ IdleFrontEnd
    /\ IdleFilter
    /\ IdleGenerate

WindowRequest == GuarantorStep(WindowResponses)

\* midnight passes between two requests: each request reads datetime.now()
MidnightPasses ==
    /\ pc = "guarantor"
    /\ now % 86400 = 86399
    /\ now' = now + 1
    /\ UNCHANGED << pc, article, verdict, limit, response, offered, guaranteed, window,
                    regular, outcome, call_count, style_key, today, news, llm, market,
                    environ, tracker, saved, params, session_state, shown >>

NextWindows == WindowRequest \/ MidnightPasses

SpecWindows == InitWindows /\ [][NextWindows]_vars

(***************************************************************************)
(* C22: the time ranges of the guarantor's requests                        *)
(***************************************************************************)

\* the days a week around the clock's first day
CalendarDays == (DayOf(0) - 8)..(DayOf(0) + 6)

\* the calendar days of which a request's range time_from .. time_to holds a
\* minute
CoveredDays(p) ==
    { d \in CalendarDays :
        /\ ~TextBefore(Ymd(d) \o "T2359", p.time_from)
        /\ ~TextBefore(p.time_to, Ymd(d) \o "T0000") }

\* C22: the time ranges of the requests the guarantor has made for its
\* windows are pairwise disjoint and ordered nearest first: no calendar day
\* is covered by two requests, and a later request covers earlier days only
C22_WindowsDisjoint ==
    \A i, j \in 1..Len(params) :
        i < j => /\ CoveredDays(params[i]) \cap CoveredDays(params[j]) = {}
                 /\ \A d \in CoveredDays(params[i]), e \in CoveredDays(params[j]) : e < d

(***************************************************************************)
(* C23: titles in capital letters                                          *)
(***************************************************************************)

\* the title as the feed sent it is fully upper-case and longer than 20
\* characters
AllCapsTitle == IsUpper(Get(article, "title", "")) /\ Len(Get(article, "title", "")) > 20

\* C23: an article whose title is fully upper-case and longer than 20
\* characters is rejected by _is_quality_financial_content, by
\* _is_quality_major_headline and by _is_quality_headline
C23_AllCapsRejected ==
    AllCapsTitle => \A check \in DOMAIN verdict : ~verdict[check]

(***************************************************************************)
(* C24: the word "gold" inside another word                                *)
(***************************************************************************)

\* the text holds `word` as a token: not preceded and not followed by a letter
HasToken(word, text) ==
    \E i \in 1..(Len(text) - Len(word) + 1) :
        /\ SubSeq(text, i, i + Len(word) - 1) = word
        /\ i = 1 \/ SubSeq(text, i - 1, i - 1) \notin CharSet(LowerLetters)
        /\ \/ i + Len(word) - 1 = Len(text)
           \/ SubSeq(text, i + Len(word), i + Len(word)) \notin CharSet(LowerLetters)

\* the token "gold" stands in the title or in the summary
HasGoldToken(h) ==
    \/ HasToken("gold", Lower(Get(h, "title", "")))
    \/ HasToken("gold", Lower(Get(h, "summary", "")))

\* C24: of the articles the feeds offered to the guarantor, the gold predicate
\* holds only for those with the token "gold" in title or summary, a
\* gold-market context phrase and no corporate-action exclusion term; an
\* article with "gold" only inside another word never passes
C24_GoldIsAToken ==
    \A a \in offered :
        Gold(Normalize(a)) =>
            /\ HasGoldToken(Normalize(a))
            /\ TitleOrSummaryHas(gold_commodity_terms, Normalize(a))
            /\ ~TitleOrSummaryHas(gold_company_exclusions, Normalize(a))

(***************************************************************************)
(* C25: the returned articles are the articles the normalizer created      *)
(***************************************************************************)

\* the fields of a normalized article that a reader of the headlines sees
ArticleFields ==
    { "title", "summary", "source", "time_published", "sentiment", "sentiment_score",
      "tickers" }

\* the articles _normalize_article created from the records of the feeds
CreatedArticles ==
    { Normalize(a) : a \in { r \in offered \cup Range(response.feed) : ~Raises(r) } }

GoldOnly(s)   == { i \in 1..Len(s) : Gold(s[i]) /\ ~Crypto(s[i]) }
CryptoOnly(s) == { i \in 1..Len(s) : Crypto(s[i]) /\ ~Gold(s[i]) }

\* the articles a step of the guarantor appended to the accepted list
Added == SubSeq(guaranteed', Len(guaranteed) + 1, Len(guaranteed'))

\* C26: over the whole search the guarantor accepts at most one article
\* through its gold scan and at most one through its crypto scan, so it holds
\* at most 2 articles; every accepted article passes the generic quality
\* predicate and the gold or the crypto predicate.  An accepted article stays
\* accepted, and a scan whose slot is filled appends nothing.
C26_AtMostOnePerScan ==
    /\ [](/\ Len(guaranteed) <= 2
          /\ Cardinality(GoldOnly(guaranteed)) <= 1
          /\ Cardinality(CryptoOnly(guaranteed)) <= 1
          /\ \A i \in 1..Len(guaranteed) :
                Quality(guaranteed[i]) /\ (Gold(guaranteed[i]) \/ Crypto(guaranteed[i])))
    /\ [][ /\ Len(guaranteed') >= Len(guaranteed)
           /\ SubSeq(guaranteed', 1, Len(guaranteed)) = guaranteed
           /\ GoldCount(guaranteed) > 0 => GoldOnly(Added) = {}
           /\ CryptoCount(guaranteed) > 0 => CryptoOnly(Added) = {} ]_vars

\* the search has ended with one article from each scan, found in two
\* different windows
C26_Witness ==
    /\ pc = "regular"
    /\ Len(guaranteed) = 2
    /\ GoldOnly(guaranteed) # {} /\ CryptoOnly(guaranteed) # {}
    /\ call_count = 2

(***************************************************************************)
(* C27: the guaranteed articles survive the final cut                      *)
(***************************************************************************)

\* the guaranteed articles that the dedup keeps: no earlier guaranteed
\* article has the same 60-character key
KeptGuaranteed ==
    { i \in 1..Len(guaranteed) : \A j \in 1..(i - 1) : Key(guaranteed[j]) # Key(guaranteed[i]) }

\* C27: for a limit of 2 or more, the general pool holds at most limit minus
\* the number of guaranteed articles, and every guaranteed article appears in
\* the returned list unless an earlier guaranteed article has its dedup key,
\* whatever the scores of the general pool
C27_GuaranteedSurvive ==
    (Returned /\ limit >= 2) =>
        /\ Len(regular) <= limit - Len(guaranteed)
        /\ \A i \in KeptGuaranteed : guaranteed[i] \in Range(outcome.val)

\* the general pool was cut to the one place left and its headline outranks
\* the guaranteed article, which is returned last
C27_Witness ==
    /\ Returned
    /\ limit = 2
    /\ Len(guaranteed) = 1
    /\ Len(response.feed) = 2
    /\ \A k \in 1..2 : Major(response.feed[k])
    /\ Len(regular) = 1
    /\ Len(outcome.val) = 2
    /\ outcome.val[2] = guaranteed[1]
    /\ Score(outcome.val[1]) > Score(outcome.val[2])

(***************************************************************************)
(* SpecFrontEnd: the generation and clear buttons of str_alpha.py          *)
(***************************************************************************)

\* generate_disabled, line 336: the credentials were not both loaded
GenerateDisabled == ConfigurationError(environ) # ""

\* what generator.get_major_headlines(), limit 15, can return
ViewedHeadlines == { GetMajorHeadlines(f, 15) : f \in SaveFeeds }

\* OpenAI(api_key=...) in the constructor each handler calls first, line 35 of
\* alpha_news_chill.py: the client is built or the library raises
ClientOutcomes == { "ok", "raises" }

\* st.error(f"Generation failed: {e}") and st.error(f"Failed to fetch headlines: {e}")
GenerationFailed == [kind |-> "error", text |-> "Generation failed"]
FetchFailed      == [kind |-> "error", text |-> "Failed to fetch headlines"]

\* the except block of the Generate button, lines 347-350
GenerateFailed(s) == [s EXCEPT !.content = None, !.generation_complete = FALSE]

\* the except block of the View Major Headlines button, lines 361-364
HeadlinesFailed(s) == [s EXCEPT !.headlines = None, !.headlines_loaded = FALSE]

\* an except block that clears the two values and leaves the two flags
BothFailed_FlagsKept(s) == [s EXCEPT !.content = None, !.headlines = None]

\* the except block of the Generate Content + Headlines button, lines 377-382
BothFailed(s) ==
    [s EXCEPT !.content = None, !.headlines = None,
              !.generation_complete = FALSE, !.headlines_loaded = FALSE]

\* the Clear Results button, lines 399-403
Cleared(s) ==
    [s EXCEPT !.content = None, !.headlines = None, !.generation_complete = FALSE,
              !.headlines_loaded = FALSE, !.last_generated_time = "None"]

InitFrontEnd ==
    /\ pc = "idle"
    /\ environ \in Environments
    /\ session_state = NoSession
    /\ shown = << >>
    /\ style_key = "classic_daily"
    /\ today = "Monday"
    /\ now = 0
    /\ params = << >> /\ tracker = NoTracker /\ saved = NoSave
    /\ response = NoResponse /\ market = NoQuotes /\ llm = NoReply /\ news = << >>
    /\ outcome = NoOutcome /\ call_count = 0
    /\ limit = 0 /\ offered = {} /\ guaranteed = << >> /\ window = 0 /\ regular = << >>
    /\ IdleFilter

\* generator.generate_content(style_key=key) on a Monday, for the feed's
\* answer, the quotes and the reply of this run
ContentFor(key, resp, q, reply, fetched) ==
    Bundle("Monday", "Weekly Market Open",
           GenerateContentWithStyle(fetched, "Monday",
               "Weekly market open with key developments", key, reply),
           fetched, [market_data |-> GetMarketSnapshot(q)])

\* the Generate Today's Content button, lines 338-350
PressGenerate ==
    /\ ~GenerateDisabled
    /\ now < MaxClock
    /\ \E tick \in { 0, 1 }, client \in ClientOutcomes, resp \in SavedResponses,
          q \in SavedQuotes, reply \in SavedReplies :
          LET Done(content) ==
                  IF client = "raises" \/ content.raised
                  THEN /\ session_state' = GenerateFailed(session_state)
                       /\ shown' = << GenerationFailed >>
                  ELSE /\ session_state' =
                            [session_state EXCEPT !.content = Some(content.val),
                                                  !.generation_complete = TRUE,
                                                  !.last_generated_time = TimeText(now + tick)]
                       /\ shown' = << >>
          IN  /\ now' = now + tick
              /\ Done(ContentFor(session_state.selected_style, resp, q, reply,
                                 GetHighQualityNews(resp, 8).val))
    /\ pc' = "generate"
    /\ UNCHANGED << params, environ, tracker, saved, article, verdict, limit, response, offered,
                    guaranteed, window, regular, outcome, call_count, style_key, today, news,
                    llm, market >>

\* the View Major Headlines button, lines 352-364
PressHeadlines ==
    /\ ~GenerateDisabled
    /\ \E client \in ClientOutcomes, headlines \in ViewedHeadlines :
          IF client = "raises" \/ headlines.raised
          THEN /\ session_state' = HeadlinesFailed(session_state)
               /\ shown' = << FetchFailed >>
          ELSE /\ session_state' = [session_state EXCEPT !.headlines = Some(headlines.val),
                                                         !.headlines_loaded = TRUE]
               /\ shown' = << >>
    /\ pc' = "headlines"
    /\ UNCHANGED << params, environ, tracker, now, saved, article, verdict, limit, response,
                    offered, guaranteed, window, regular, outcome, call_count, style_key,
                    today, news, llm, market >>

\* the Generate Content + Headlines button, lines 366-382
PressBoth ==
    /\ ~GenerateDisabled
    /\ now < MaxClock
    /\ \E tick \in { 0, 1 }, client \in ClientOutcomes, resp \in SavedResponses,
          q \in SavedQuotes, reply \in SavedReplies, headlines \in ViewedHeadlines :
          LET Done(content) ==
                  IF client = "raises" \/ content.raised \/ headlines.raised
                  THEN /\ session_state' = BothFailed(session_state)
                       /\ shown' = << GenerationFailed >>
                  ELSE /\ session_state' =
                            [session_state EXCEPT !.content = Some(content.val),
                                                  !.headlines = Some(headlines.val),
                                                  !.generation_complete = TRUE,
                                                  !.headlines_loaded = TRUE,
                                                  !.last_generated_time = TimeText(now + tick)]
                       /\ shown' = << >>
          IN  /\ now' = now + tick
              /\ Done(ContentFor(session_state.selected_style, resp, q, reply,
                                 GetHighQualityNews(resp, 8).val))
    /\ pc' = "both"
    /\ UNCHANGED << params, environ, tracker, saved, article, verdict, limit, response, offered,
                    guaranteed, window, regular, outcome, call_count, style_key, today, news,
                    llm, market >>

\* the Clear Results button, lines 398-404
PressClear ==
    /\ session_state' = Cleared(session_state)
    /\ shown' = << >>
    /\ pc' = "clear"
    /\ UNCHANGED << params, environ, tracker, now, saved, article, verdict, limit, response,
                    offered, guaranteed, window, regular, outcome, call_count, style_key,
                    today, news, llm, market >>

NextFrontEnd == PressGenerate \/ PressHeadlines \/ PressBoth \/ PressClear

SpecFrontEnd == InitFrontEnd /\ [][NextFrontEnd]_vars

(***************************************************************************)
(* C28: the flags of the session state                                     *)
(***************************************************************************)

\* C28: after any sequence of presses, generation_complete is set only while
\* content and last_generated_time are set, headlines_loaded only while
\* headlines is not None, and a failed Generate Content + Headlines leaves
\* content, headlines and both flags reset
C28_FlagsFollowValues ==
    /\ session_state.generation_complete =>
          ~session_state.content.is_none /\ session_state.last_generated_time # "None"
    /\ session_state.headlines_loaded => ~session_state.headlines.is_none
    /\ (pc = "both" /\ shown = << GenerationFailed >>) =>
          /\ session_state.content.is_none /\ session_state.headlines.is_none
          /\ ~session_state.generation_complete /\ ~session_state.headlines_loaded

\* Generate Content + Headlines failed after an earlier generation had
\* succeeded: the time of that generation is still there, the content is not
C28_Witness ==
    /\ pc = "both"
    /\ shown = << GenerationFailed >>
    /\ session_state.last_generated_time # "None"
    /\ session_state.content.is_none
    /\ ~session_state.generation_complete

(***************************************************************************)
(* C29: the Quality_Score of a logged row                                  *)
(***************************************************************************)

\* the script of the saved bundle is the one the fallback generator writes
FallbackScript == outcome.val.script = Fallback(style_key).script

\* C29: every row save_to_excel has written for the bundle carries
\* Quality_Score 'Fallback' exactly when the bundle's script came from the
\* fallback generator, and 'Generated' exactly when it is a validated
\* text-generation output
C29_QualityScoreTellsFallback ==
    \A i \in 1..Len(tracker.rows) :
        /\ tracker.rows[i].Quality_Score \in { "Fallback", "Generated" }
        /\ tracker.rows[i].Quality_Score = "Fallback" <=> FallbackScript

(***************************************************************************)
(* SpecSaveButton: the Save to Excel button for a generated bundle.  The   *)
(* button leaves the session state as it is, and the other buttons leave   *)
(* the workbook as it is.                                                   *)
(***************************************************************************)

\* st.success("Content saved to " + filename) and st.error("Failed to save: " + e)
ContentSaved(name) == [kind |-> "success", text |-> "Content saved to " \o name]
SaveFailed         == [kind |-> "error", text |-> "Failed to save"]

\* a generation has succeeded in this session and nothing is saved yet
InitSaveButton ==
    /\ pc = "generate"
    /\ environ = Credentials
    /\ style_key = "classic_daily"
    /\ today = "Monday"
    /\ now = 0
    /\ \E resp \in SavedResponses, q \in SavedQuotes, reply \in SavedReplies :
          session_state =
              [NoSession EXCEPT
                  !.content = Some(ContentFor("classic_daily", resp, q, reply,
                                             GetHighQualityNews(resp, 8).val).val),
                  !.generation_complete = TRUE,
                  !.last_generated_time = TimeText(0)]
    /\ shown = << >>
    /\ params = << >> /\ tracker = NoTracker /\ saved = NoSave
    /\ response = NoResponse /\ market = NoQuotes /\ llm = NoReply /\ news = << >>
    /\ outcome = NoOutcome /\ call_count = 0
    /\ limit = 0 /\ offered = {} /\ guaranteed = << >> /\ window = 0 /\ regular = << >>
    /\ IdleFilter

\* the Save to Excel button, lines 385-396 of str_alpha.py
PressSave ==
    /\ ~GenerateDisabled
    /\ session_state.generation_complete
    /\ ~session_state.content.is_none
    /\ \E client \in ClientOutcomes :
          IF client = "raises"
          THEN /\ shown' = << SaveFailed >>
               /\ UNCHANGED << tracker, now, saved, call_count >>
          ELSE /\ SaveContent(session_state.content.val)
               /\ shown' = << ContentSaved(saved'.val) >>
    /\ pc' = "save"
    /\ UNCHANGED << params, session_state, environ, article, verdict, limit, response, offered,
                    guaranteed, window, regular, outcome, style_key, today, news, llm, market >>

NextSaveButton == PressSave

SpecSaveButton == InitSaveButton /\ [][NextSaveButton]_vars

(***************************************************************************)
(* C30: what a save reports                                                *)
(***************************************************************************)

\* the front-end shows its 'Content saved' message
SuccessShown == \E i \in 1..Len(shown) : shown[i].kind = "success"

\* C30: save_to_excel raises nothing and returns the file name or the empty
\* string, the empty string when the headline fetch inside it failed; and the
\* Save button shows its 'Content saved' message only when save_to_excel
\* returned the file name
C30_SuccessOnlyWhenSaved ==
    /\ ~saved.raised
    /\ saved.val \in { "none", "", filename }
    /\ (pc = "save" /\ SuccessShown) => saved.val = filename

====
